---- MODULE Spec2Model ----
(***************************************************************************)
(* Model of the TradingBot repository: the risk-gated decision loop of     *)
(* BaseGoldBot and its MockGoldBot / LiveGoldBot / GoldBot variants, the    *)
(* order validator, and the OrderManager bracket/OCO state machine.         *)
(*                                                                         *)
(* Units.  Prices are integers in ticks of the configured contract         *)
(* (TICK_SIZE = 0.25, so 2050.00 is 8200).  Money is in cents.  Time is in  *)
(* seconds.  Pattern scores are in tenths of a point.                      *)
(* The configuration is the static Config object with the default contract *)
(* (TRADING_CONTRACT = MNQ).  The attribute names MIN_POSITION_MGC,         *)
(* MAX_POSITION_MGC and DEFAULT_POSITION_MGC that base_bot.py and           *)
(* data_validator.py read are taken to be the contract's MIN_POSITION,      *)
(* MAX_POSITION and DEFAULT_POSITION.                                      *)
(***************************************************************************)
EXTENDS Integers, Sequences, FiniteSets, TLC

VARIABLES
    variant,             \* which subclass of BaseGoldBot runs: "mock", "live", "gold"
    t0,                  \* wall-clock time of day (s) at which the loop started
    now,                 \* seconds elapsed since the loop started
    is_running,          \* BaseGoldBot.is_running
    pc,                  \* where trading_loop is suspended
    wake,                \* time at which the current asyncio.sleep ends
    current_price,       \* BaseGoldBot.current_price (0 = not yet known)
    daily_pnl,           \* BaseGoldBot.daily_pnl
    consecutive_losses,  \* BaseGoldBot.consecutive_losses
    last_signal_time,    \* BaseGoldBot.last_signal_time (NoTime = None)
    positions,           \* LiveGoldBot.positions: order id -> status
    total_trades,        \* LiveGoldBot.total_trades
    winning_trades,      \* LiveGoldBot.winning_trades
    losing_trades,       \* LiveGoldBot.losing_trades
    pending,             \* the place_order call the loop is awaiting
    lastOrder,           \* the most recent place_order call made by execute_signal
    callSeq,             \* number of place_order calls made by execute_signal
    lastOk,              \* time at which the last place_order returned True
    cycle,               \* what the last fetch/detect/score cycle ended with
    history,             \* trade results and position updates, in the order processed
    nEvents,             \* number of broker events handled so far
    orders,              \* OrderManager.orders: order id -> Order
    brackets,            \* OrderManager.bracket_orders (entry ids)
    oco_groups,          \* OrderManager.oco_groups (entry ids whose group exists)
    lockHolder,          \* who holds OrderManager._lock ("free" or the blocked call)
    apiLog,              \* calls that reached the broker API, in order
    omCall,              \* the last OrderManager call and how it ended
    vin,                 \* validate_order_params: the arguments
    vout                 \* validate_order_params: the outcome

botvars == <<variant, t0, now, is_running, pc, wake, current_price, daily_pnl,
             consecutive_losses, last_signal_time, positions, total_trades,
             winning_trades, losing_trades, pending, lastOrder, callSeq, lastOk,
             cycle, history, nEvents>>
omvars  == <<orders, brackets, oco_groups, lockHolder, apiLog, omCall>>
valvars == <<vin, vout>>
vars    == <<botvars, omvars, valvars>>

(***************************************************************************)
(* Configuration (src/src/config.py, src/src/contracts.py, MNQ)            *)
(***************************************************************************)
TICK_VALUE == 50
MIN_POSITION == 2
MAX_POSITION == 50
DEFAULT_POSITION == 2
MAX_STOP_TICKS == 200
DEFAULT_STOP_TICKS == 60
MIN_PATTERN_SCORE == 50
CONTRACT_VOLATILITY == 15
DAILY_LOSS_LIMIT == 80000
MAX_RISK_PER_TRADE == 50000
MAX_CONSECUTIVE_LOSSES == 2
SESSION_START == 7200
SESSION_END == 82800
NEWS_BLACKOUT_START == 81900
TP1_RATIO == 1
SIGNAL_COOLDOWN_SECONDS == 300
MAIN_LOOP_DELAY_SECONDS == 30
CANNOT_TRADE_SLEEP == 60
NO_DATA_SLEEP == 30
MOCK_EXECUTION_DELAY == 1
MIN_GOLD_PRICE == 400
MAX_GOLD_PRICE == 40000
SecondsPerDay == 86400
NoTime == -1

MIN_POSITION_MGC == MIN_POSITION
MAX_POSITION_MGC == MAX_POSITION
DEFAULT_POSITION_MGC == DEFAULT_POSITION

(***************************************************************************)
(* Bounds of the model                                                     *)
(***************************************************************************)
MaxTime == 400
MaxEvents == 2

Max(a, b) == IF a >= b THEN a ELSE b
Min(a, b) == IF a <= b THEN a ELSE b
Abs(a) == IF a >= 0 THEN a ELSE -a

(***************************************************************************)
(* Inputs the environment chooses from                                     *)
(***************************************************************************)
Variants == {"mock", "live", "gold"}
StartTimes == {7150, 81600}
ClosePrices == {410, 8200}
LevelOffsets == {-20, 0, 20}
Scores == {40, 70, 90}
PatternTypes == {"bullish", "bearish"}
MockPrices == {8150, 8200, 8300}
QuoteMids == {8130, 8200, 8400}
Latencies == {1}
UnrealizedPnls == {-90000, 0}
RealizedPnls == {-10000, 20000}

PatternsAt(P) ==
    { [type |-> t, level |-> P + d, score |-> s] :
        t \in PatternTypes, d \in LevelOffsets, s \in Scores }

\* detection results: none, one pattern, or two (the second one at the close)
CandidateLists(P) ==
    {<<>>} \cup { <<a>> : a \in PatternsAt(P) }
           \cup { <<a, b>> : a \in PatternsAt(P),
                             b \in { c \in PatternsAt(P) : c.level = P } }

NoSignal == [type |-> "none", level |-> 0, score |-> 0]
NoOrder == [side |-> "NONE", quantity |-> 0, stop_price |-> 0, target_price |-> 0,
            entry |-> 0, ptype |-> "none", level |-> 0, losses |-> 0, ref |-> 0]

(***************************************************************************)
(* DataValidator                                                           *)
(***************************************************************************)
\* validate_price: the numeric checks (type and NaN checks do not arise for integers)
ValidatePrice(price) ==
    IF price <= 0 THEN "nonpositive"
    ELSE IF price < MIN_GOLD_PRICE \/ price > MAX_GOLD_PRICE THEN "range"
    ELSE "ok"

\* validate_order_params: "ok" when nothing is raised, otherwise which check raised
ValidateOrderParams(side, quantity, stop, target, entry) ==
    IF side \notin {"BUY", "SELL"} THEN "side"
    ELSE IF quantity <= 0 THEN "quantity"
    ELSE IF quantity < MIN_POSITION_MGC \/ quantity > MAX_POSITION_MGC THEN "quantity_range"
    ELSE IF ValidatePrice(stop) # "ok" THEN "stop_price"
    ELSE IF ValidatePrice(target) # "ok" THEN "target_price"
    ELSE IF ValidatePrice(entry) # "ok" THEN "entry_price"
    ELSE IF Abs(entry - stop) > MAX_STOP_TICKS THEN "stop_distance"
    ELSE IF side = "BUY" /\ stop >= entry THEN "buy_stop"
    ELSE IF side = "BUY" /\ target <= entry THEN "buy_target"
    ELSE IF side = "SELL" /\ stop <= entry THEN "sell_stop"
    ELSE IF side = "SELL" /\ target >= entry THEN "sell_target"
    ELSE "ok"

(***************************************************************************)
(* BaseGoldBot: risk gate, sizing, selection, order planning               *)
(***************************************************************************)
TimeOfDay(t) == (t0 + t) % SecondsPerDay

\* can_trade without the consecutive-loss check
CanTradeNoLossCheck(pnl, losses, tod) ==
    IF pnl <= -DAILY_LOSS_LIMIT THEN FALSE
    ELSE IF ~(SESSION_START <= tod /\ tod <= SESSION_END) THEN FALSE
    ELSE IF tod >= NEWS_BLACKOUT_START THEN FALSE
    ELSE TRUE

\* can_trade, with the wall clock passed in
CanTrade(pnl, losses, tod) ==
    IF pnl <= -DAILY_LOSS_LIMIT THEN FALSE
    ELSE IF losses >= MAX_CONSECUTIVE_LOSSES THEN FALSE
    ELSE IF ~(SESSION_START <= tod /\ tod <= SESSION_END) THEN FALSE
    ELSE IF tod >= NEWS_BLACKOUT_START THEN FALSE
    ELSE TRUE

\* contracts.calculate_position_size via Config.calculate_dynamic_position_size
DynamicPositionSize ==
    LET risk_position == MAX_RISK_PER_TRADE \div (DEFAULT_STOP_TICKS * TICK_VALUE)
        position_size == Max(MIN_POSITION, Min(risk_position, MAX_POSITION))
    IN  IF CONTRACT_VOLATILITY > 13
        THEN Max(MIN_POSITION, (position_size * 8) \div 10)
        ELSE position_size

\* the size before the loss reduction: DEFAULT_POSITION_MGC, or the dynamic size (live)
BaseSize(v) == IF v = "live" THEN DynamicPositionSize ELSE DEFAULT_POSITION_MGC

CalculatePositionSizeNoReduction(v, losses) ==
    Max(MIN_POSITION, Min(BaseSize(v), MAX_POSITION))

\* calculate_position_size (BaseGoldBot, and the LiveGoldBot override)
CalculatePositionSize(v, losses) ==
    LET size0 == BaseSize(v)
        size1 == IF losses >= 1 THEN Max(MIN_POSITION, size0 \div 2) ELSE size0
    IN  Max(MIN_POSITION, Min(size1, MAX_POSITION))

RECURSIVE SelectFrom(_, _, _)
\* the scoring loop of trading_loop: keeps the first candidate with the highest
\* score that is >= MIN_PATTERN_SCORE and > best_score (best_score starts at 0)
SelectFrom(cands, i, best) ==
    IF i > Len(cands) THEN best
    ELSE IF cands[i].score >= MIN_PATTERN_SCORE /\ cands[i].score > best.score
         THEN SelectFrom(cands, i + 1, cands[i])
         ELSE SelectFrom(cands, i + 1, best)

BestSignal(cands) == SelectFrom(cands, 1, NoSignal)

SideFor(type) == IF type = "bullish" THEN "BUY" ELSE "SELL"

StopFor(type, P) ==
    IF type = "bullish" THEN P - DEFAULT_STOP_TICKS ELSE P + DEFAULT_STOP_TICKS

TargetFor(type, P) ==
    IF type = "bullish" THEN P + DEFAULT_STOP_TICKS * TP1_RATIO
                        ELSE P - DEFAULT_STOP_TICKS * TP1_RATIO

LevelRejectedNever(type, level, P) == FALSE

\* execute_signal: the pattern level is on the wrong side of the current price
LevelRejected(type, level, P) ==
    IF type = "bullish" THEN level > P ELSE level < P

PlaceOrderArgsSwapped(side, quantity, stop, target) ==
    [side |-> side, quantity |-> quantity, stop_price |-> target, target_price |-> stop]

\* the arguments of the place_order call made by execute_signal
PlaceOrderArgs(side, quantity, stop, target) ==
    [side |-> side, quantity |-> quantity, stop_price |-> stop, target_price |-> target]

\* execute_signal up to its place_order call: what it ends with, and the call
ExecuteSignal(sig, P, losses, v, ref) ==
    LET side   == SideFor(sig.type)
        stop   == StopFor(sig.type, P)
        target == TargetFor(sig.type, P)
        size   == CalculatePositionSize(v, losses)
        args   == PlaceOrderArgs(side, size, stop, target)
    IN  IF ValidatePrice(P) # "ok" THEN [result |-> "bad_price", order |-> NoOrder]
        ELSE IF LevelRejected(sig.type, sig.level, P)
             THEN [result |-> "level", order |-> NoOrder]
        ELSE IF ValidateOrderParams(side, size, stop, target, P) # "ok"
             THEN [result |-> "invalid", order |-> NoOrder]
        ELSE [result |-> "call",
              order  |-> [side |-> args.side, quantity |-> args.quantity,
                          stop_price |-> args.stop_price,
                          target_price |-> args.target_price,
                          entry |-> P, ptype |-> sig.type, level |-> sig.level,
                          losses |-> losses, ref |-> ref]]

(***************************************************************************)
(* BaseGoldBot.trading_loop and its variants                               *)
(*                                                                         *)
(* The loop is a coroutine: it runs without interruption from one await to *)
(* the next.  pc names the await it is suspended at:                       *)
(*   "init"     constructed, run() not yet called                          *)
(*   "fetch"    awaiting get_candles / get_multi_timeframe_candles         *)
(*   "placing"  awaiting place_order inside execute_signal                 *)
(*   "sleep_cd" awaiting asyncio.sleep(signal_cooldown)                    *)
(*   "sleep"    awaiting any other asyncio.sleep, then back to the top     *)
(*   "done"     the loop has returned                                      *)
(* The modelled window (MaxTime seconds) contains no midnight, so the day  *)
(* rollover inside update_monitoring does not fire.                        *)
(***************************************************************************)
InitBot ==
    /\ variant \in Variants
    /\ t0 \in StartTimes
    /\ now = 0
    /\ is_running = FALSE
    /\ pc = "init"
    /\ wake = 0
    /\ current_price = IF variant = "mock" THEN 8200 ELSE 0
    /\ daily_pnl = 0
    /\ consecutive_losses = 0
    /\ last_signal_time = NoTime
    /\ positions = <<>>
    /\ total_trades = 0
    /\ winning_trades = 0
    /\ losing_trades = 0
    /\ pending = NoOrder
    /\ lastOrder = NoOrder
    /\ callSeq = 0
    /\ lastOk = NoTime
    /\ cycle = "none"
    /\ history = <<>>
    /\ nEvents = 0

\* `while self.is_running:` followed by `if not self.can_trade(): sleep(60); continue`
TopOfLoop(running, pnl, losses, t) ==
    IF ~running THEN [pc |-> "done", wake |-> t]
    ELSE IF ~CanTrade(pnl, losses, TimeOfDay(t))
         THEN [pc |-> "sleep", wake |-> t + CANNOT_TRADE_SLEEP]
    ELSE [pc |-> "fetch", wake |-> t]

CooldownEndShort(t) == t + MAIN_LOOP_DELAY_SECONDS

\* `await asyncio.sleep(signal_cooldown)` started at time t ends at
CooldownEnd(t) == t + SIGNAL_COOLDOWN_SECONDS

\* the awaits at which another task can run while the loop is suspended
SuspensionPoints(v) ==
    IF v = "mock" THEN {"placing", "sleep_cd", "sleep"}
                  ELSE {"fetch", "placing", "sleep_cd", "sleep"}

\* run(): connect(), then the first pass through the top of the loop
Run ==
    /\ pc = "init"
    /\ \E connected \in BOOLEAN, p \in MockPrices :
         IF connected
         THEN /\ is_running' = TRUE
              /\ current_price' = IF variant = "mock" THEN p ELSE current_price
              /\ pc' = TopOfLoop(TRUE, daily_pnl, consecutive_losses, now).pc
              /\ wake' = TopOfLoop(TRUE, daily_pnl, consecutive_losses, now).wake
         ELSE /\ pc' = "done"
              /\ UNCHANGED <<is_running, current_price, wake>>
    /\ UNCHANGED <<variant, t0, now, daily_pnl, consecutive_losses, last_signal_time,
                   positions, total_trades, winning_trades, losing_trades, pending,
                   lastOrder, callSeq, lastOk, cycle, history, nEvents>>

\* a sleep other than the cooldown ends; the loop is back at its top
Wake ==
    /\ pc = "sleep"
    /\ wake <= MaxTime
    /\ now' = wake
    /\ pc' = TopOfLoop(is_running, daily_pnl, consecutive_losses, wake).pc
    /\ wake' = TopOfLoop(is_running, daily_pnl, consecutive_losses, wake).wake
    /\ UNCHANGED <<variant, t0, is_running, current_price, daily_pnl,
                   consecutive_losses, last_signal_time, positions, total_trades,
                   winning_trades, losing_trades, pending, lastOrder, callSeq,
                   lastOk, cycle, history, nEvents>>

\* the cooldown sleep ends: update_monitoring, then sleep(main_loop_delay)
CooldownWake ==
    /\ pc = "sleep_cd"
    /\ wake <= MaxTime
    /\ now' = wake
    /\ pc' = "sleep"
    /\ wake' = wake + MAIN_LOOP_DELAY_SECONDS
    /\ UNCHANGED <<variant, t0, is_running, current_price, daily_pnl,
                   consecutive_losses, last_signal_time, positions, total_trades,
                   winning_trades, losing_trades, pending, lastOrder, callSeq,
                   lastOk, cycle, history, nEvents>>

\* get_candles returned nothing usable: sleep(30), continue
NoData(t) ==
    /\ now' = t
    /\ cycle' = "no_data"
    /\ pc' = "sleep"
    /\ wake' = t + NO_DATA_SLEEP
    /\ UNCHANGED <<last_signal_time, pending, lastOrder, callSeq>>

\* detect, score, select, and execute_signal up to its first await
Cycle(cands, P, t) ==
    LET best == BestSignal(cands)
        ex   == ExecuteSignal(best, P, consecutive_losses, variant, current_price)
    IN  /\ now' = t
        /\ IF best = NoSignal
           THEN /\ cycle' = "no_signal"
                /\ pc' = "sleep"
                /\ wake' = t + MAIN_LOOP_DELAY_SECONDS
                /\ UNCHANGED <<last_signal_time, pending, lastOrder, callSeq>>
           ELSE /\ last_signal_time' = IF variant = "live" THEN t ELSE last_signal_time
                /\ cycle' = ex.result
                /\ IF ex.result # "call"
                   THEN /\ pc' = "sleep_cd"
                        /\ wake' = CooldownEnd(t)
                        /\ UNCHANGED <<pending, lastOrder, callSeq>>
                   ELSE /\ callSeq' = callSeq + 1
                        /\ lastOrder' = ex.order
                        /\ IF variant = "mock" /\
                              ValidateOrderParams(ex.order.side, ex.order.quantity,
                                                  ex.order.stop_price,
                                                  ex.order.target_price,
                                                  current_price) # "ok"
                           THEN /\ pc' = "sleep_cd"
                                /\ wake' = CooldownEnd(t)
                                /\ pending' = NoOrder
                           ELSE /\ pc' = "placing"
                                /\ wake' = t
                                /\ pending' = ex.order

\* get_candles returns and the loop runs on to its next await
FetchReturn ==
    /\ pc = "fetch"
    /\ \E P \in ClosePrices \cup {0} :
         /\ variant = "gold" => P = 0
         /\ IF P = 0 THEN NoData(now)
            ELSE \E cands \in CandidateLists(P) : Cycle(cands, P, now)
    /\ UNCHANGED <<variant, t0, is_running, current_price, daily_pnl,
                   consecutive_losses, positions, total_trades, winning_trades,
                   losing_trades, lastOk, history, nEvents>>

\* MockGoldBot._simulate_trade_outcome: the P&L of a simulated trade
MockPnl(side, entry, stop, target, win) ==
    IF win
    THEN (IF side = "BUY" THEN target - entry ELSE entry - target)
             * DEFAULT_POSITION_MGC * TICK_VALUE
    ELSE -Abs(stop - entry) * DEFAULT_POSITION_MGC * TICK_VALUE

LossesAfterStale(losses, win) == IF win THEN 0 ELSE 1

\* consecutive_losses after a trade result: += 1 on a loss, = 0 on a win
LossesAfter(losses, win) == IF win THEN 0 ELSE losses + 1

\* LiveGoldBot.place_order: total_risk of the order against the reference price
TotalRisk(ref, stop, quantity) == Abs(ref - stop) * TICK_VALUE * quantity

\* MockGoldBot.place_order after validation: sleep(1), draw the outcome, book it
MockPlaceReturn ==
    /\ variant = "mock"
    /\ now + MOCK_EXECUTION_DELAY <= MaxTime
    /\ \E win \in BOOLEAN :
         LET pnl == MockPnl(pending.side, pending.ref, pending.stop_price,
                            pending.target_price, win)
         IN  /\ daily_pnl' = daily_pnl + pnl
             /\ consecutive_losses' = LossesAfter(consecutive_losses, win)
             /\ history' = Append(history, [result |-> IF win THEN "W" ELSE "L",
                                            pnl |-> pnl])
    /\ now' = now + MOCK_EXECUTION_DELAY
    /\ last_signal_time' = now'
    /\ lastOk' = now'
    /\ pc' = "sleep_cd"
    /\ wake' = CooldownEnd(now')
    /\ pending' = NoOrder
    /\ UNCHANGED <<positions, total_trades, lastOrder>>

\* LiveGoldBot.place_order: reference price, risk check, broker call
LivePlaceReturn ==
    /\ variant # "mock"
    /\ \E lat \in Latencies, mid \in QuoteMids \cup {0}, accepted \in BOOLEAN :
         LET ref  == IF pending.ref > 0 THEN pending.ref ELSE mid
             ok   == /\ ref > 0
                     /\ TotalRisk(ref, pending.stop_price, pending.quantity)
                            <= MAX_RISK_PER_TRADE
                     /\ accepted
             t    == now + lat
         IN  /\ pending.ref > 0 => mid = 0
             /\ t <= MaxTime
             /\ now' = t
             /\ lastOrder' = [lastOrder EXCEPT !.ref = ref]
             /\ IF ok
                THEN /\ positions' = Append(positions, "pending")
                     /\ total_trades' = total_trades + 1
                     /\ last_signal_time' = t
                     /\ lastOk' = t
                ELSE UNCHANGED <<positions, total_trades, last_signal_time, lastOk>>
             /\ pc' = "sleep_cd"
             /\ wake' = CooldownEnd(t)
             /\ pending' = NoOrder
    /\ UNCHANGED <<daily_pnl, consecutive_losses, history>>

\* place_order returns to execute_signal, which returns to the loop
PlaceReturn ==
    /\ pc = "placing"
    /\ \/ MockPlaceReturn
       \/ LivePlaceReturn
    /\ UNCHANGED <<variant, t0, is_running, current_price, winning_trades,
                   losing_trades, callSeq, cycle, nEvents>>

\* is_running is cleared from outside the loop (main.py test mode, disconnect)
StopRequest ==
    /\ is_running
    /\ pc \in SuspensionPoints(variant)
    /\ is_running' = FALSE
    /\ UNCHANGED <<variant, t0, now, pc, wake, current_price, daily_pnl,
                   consecutive_losses, last_signal_time, positions, total_trades,
                   winning_trades, losing_trades, pending, lastOrder, callSeq,
                   lastOk, cycle, history, nEvents>>

\* LiveGoldBot._handle_quote_update
HandleQuoteUpdate ==
    /\ variant = "live"
    /\ pc \in SuspensionPoints(variant)
    /\ nEvents < MaxEvents
    /\ nEvents' = nEvents + 1
    /\ \E mid \in QuoteMids \cup {0} :
         current_price' = IF mid > 0 THEN mid ELSE current_price
    /\ UNCHANGED <<variant, t0, now, is_running, pc, wake, daily_pnl,
                   consecutive_losses, last_signal_time, positions, total_trades,
                   winning_trades, losing_trades, pending, lastOrder, callSeq,
                   lastOk, cycle, history>>

\* LiveGoldBot._handle_position_update (position id 0 is one the bot does not hold)
HandlePositionUpdate ==
    /\ variant = "live"
    /\ pc \in SuspensionPoints(variant)
    /\ nEvents < MaxEvents
    /\ nEvents' = nEvents + 1
    /\ \E position_id \in {0} \cup DOMAIN positions, closed \in BOOLEAN,
          unrealized_pnl \in UnrealizedPnls, realized_pnl \in RealizedPnls :
         /\ IF closed /\ position_id \in DOMAIN positions
            THEN /\ winning_trades' = winning_trades + (IF realized_pnl > 0 THEN 1 ELSE 0)
                 /\ losing_trades' = losing_trades + (IF realized_pnl > 0 THEN 0 ELSE 1)
                 /\ consecutive_losses' = LossesAfter(consecutive_losses, realized_pnl > 0)
                 /\ positions' = [positions EXCEPT ![position_id] = "closed"]
                 /\ history' = Append(history,
                                      [result |-> IF realized_pnl > 0 THEN "W" ELSE "L",
                                       pnl |-> unrealized_pnl + realized_pnl])
            ELSE /\ history' = Append(history,
                                      [result |-> "U",
                                       pnl |-> unrealized_pnl + realized_pnl])
                 /\ UNCHANGED <<winning_trades, losing_trades, consecutive_losses,
                                positions>>
         /\ daily_pnl' = unrealized_pnl + realized_pnl
    /\ UNCHANGED <<variant, t0, now, is_running, pc, wake, current_price,
                   last_signal_time, total_trades, pending, lastOrder, callSeq,
                   lastOk, cycle>>

NoFill == -1
MaxBrackets == 1
MaxCalls == 4

OrderStates == {"PENDING", "WORKING", "PARTIALLY_FILLED", "FILLED", "CANCELLED",
                "REJECTED", "EXPIRED"}
\* prices of the exits of a market bracket; NoPrice is Python's None
NoPrice == -1
OMStopPrice == 8140
OMTargetPrice == 8320
\* the arguments of modify_order: a new quantity, or new prices
ModifyRequests ==
    { [new_quantity |-> 1, new_price |-> NoPrice, new_stop_price |-> NoPrice],
      [new_quantity |-> NoFill, new_price |-> 8300, new_stop_price |-> 8100] }
Quantities == {2, 4}

NoCall == [n |-> 0, op |-> "none", order_id |-> 0, new_state |-> "none",
           result |-> "none"]

InitOMIdle ==
    /\ orders = <<>>
    /\ brackets = {}
    /\ oco_groups = {}
    /\ lockHolder = "free"
    /\ apiLog = <<>>
    /\ omCall = NoCall

InitValIdle ==
    /\ vin = <<>>
    /\ vout = "none"

Init == InitBot /\ InitOMIdle /\ InitValIdle

Next ==
    \/ Run /\ UNCHANGED <<omvars, valvars>>
    \/ Wake /\ UNCHANGED <<omvars, valvars>>
    \/ CooldownWake /\ UNCHANGED <<omvars, valvars>>
    \/ FetchReturn /\ UNCHANGED <<omvars, valvars>>
    \/ PlaceReturn /\ UNCHANGED <<omvars, valvars>>
    \/ StopRequest /\ UNCHANGED <<omvars, valvars>>
    \/ HandleQuoteUpdate /\ UNCHANGED <<omvars, valvars>>
    \/ HandlePositionUpdate /\ UNCHANGED <<omvars, valvars>>

Spec == Init /\ [][Next]_vars

(***************************************************************************)
(* Properties of the decision loop                                         *)
(***************************************************************************)

C2_LossLimitLatch ==
    [][ daily_pnl <= -DAILY_LOSS_LIMIT =>
          /\ ~CanTrade(daily_pnl, consecutive_losses, TimeOfDay(now))
          /\ consecutive_losses' = consecutive_losses + 1 =>
                 ~CanTrade(daily_pnl', consecutive_losses', TimeOfDay(now')) ]_vars

\* C3: when the selected signal fails a planner check (level on the wrong side of
\* the price, or order validation fails), no order is submitted and
\* last_signal_time keeps the value it had before the cycle.
C3_RejectedPlanFrame ==
    [][ (pc = "fetch" /\ pc' = "sleep_cd" /\ cycle' \in {"level", "invalid"}) =>
          /\ callSeq' = callSeq
          /\ last_signal_time' = last_signal_time ]_vars

\* C5: when place_order succeeds last_signal_time becomes the time of that
\* dispatch, and the loop enters execute_signal again (constructs or dispatches
\* another order) only once SIGNAL_COOLDOWN_SECONDS have passed since then.
C5_Cooldown ==
    [][ /\ lastOk' # lastOk => (lastOk' = now' /\ last_signal_time' = now')
        /\ (pc = "fetch" /\ pc' \in {"placing", "sleep_cd"} /\ lastOk # NoTime) =>
               now' >= lastOk + SIGNAL_COOLDOWN_SECONDS ]_vars

C5_Witness ==
    /\ callSeq >= 2
    /\ pc = "placing"
    /\ lastOk # NoTime
    /\ last_signal_time >= lastOk
    /\ now >= lastOk + SIGNAL_COOLDOWN_SECONDS

\* C6: once is_running is False the loop makes no further place_order call.
C6_StopHonoured ==
    [][ ~is_running => callSeq' = callSeq ]_vars

RECURSIVE TrailingLosses(_)
\* the number of losses since the last win in a processed-results log
TrailingLosses(h) ==
    IF h = <<>> THEN 0
    ELSE IF h[Len(h)].result = "W" THEN 0
    ELSE IF h[Len(h)].result = "L" THEN 1 + TrailingLosses(SubSeq(h, 1, Len(h) - 1))
    ELSE TrailingLosses(SubSeq(h, 1, Len(h) - 1))

RECURSIVE SumPnl(_)
SumPnl(h) == IF h = <<>> THEN 0 ELSE h[Len(h)].pnl + SumPnl(SubSeq(h, 1, Len(h) - 1))

\* C7: the writers of daily_pnl and consecutive_losses never interleave inside a
\* read-modify-write: consecutive_losses is exactly the number of losses
\* processed since the last win, the mock's daily_pnl is exactly the sum of the
\* booked results, and the live daily_pnl is the value of the last update.
C7_NoLostUpdate ==
    /\ consecutive_losses = TrailingLosses(history)
    /\ variant = "mock" => daily_pnl = SumPnl(history)
    /\ (variant = "live" /\ history # <<>>) => daily_pnl = history[Len(history)].pnl

C7_Witness ==
    /\ Len(history) >= 2
    /\ history[Len(history)].result = "L"
    /\ history[Len(history) - 1].result = "L"
    /\ consecutive_losses = 2

\* C8: no BUY is dispatched for a pattern whose level is above the latest close,
\* and no SELL for a pattern whose level is below it.
C8_LevelSide ==
    lastOrder # NoOrder =>
        /\ lastOrder.side = "BUY" => lastOrder.level <= lastOrder.entry
        /\ lastOrder.side = "SELL" => lastOrder.level >= lastOrder.entry

C8_Witness ==
    /\ callSeq >= 1
    /\ lastOrder.side = "BUY"
    /\ lastOrder.ptype = "bullish"
    /\ lastOrder.level = lastOrder.entry

\* C9: the quantity of every dispatched order is the base size, halved (but not
\* below the minimum) when consecutive_losses >= 1 at sizing time, and lies in
\* [MIN_POSITION, MAX_POSITION].
C9_PositionSize ==
    lastOrder # NoOrder =>
        /\ lastOrder.losses = 0 => lastOrder.quantity = BaseSize(variant)
        /\ lastOrder.losses >= 1 =>
               lastOrder.quantity = Max(MIN_POSITION, BaseSize(variant) \div 2)
        /\ MIN_POSITION <= lastOrder.quantity
        /\ lastOrder.quantity <= MAX_POSITION

C9_Witness ==
    /\ callSeq >= 2
    /\ lastOrder.losses >= 1
    /\ lastOrder.quantity < BaseSize(variant)

\* C24: at the moment the decision loop submits an order (execute_signal calls
\* place_order), daily_pnl > -DAILY_LOSS_LIMIT and consecutive_losses <
\* MAX_CONSECUTIVE_LOSSES hold, also when position-update handlers ran while the
\* loop was suspended between can_trade() and the dispatch.
C24_GateAtDispatch ==
    [][ callSeq' # callSeq =>
            /\ daily_pnl' > -DAILY_LOSS_LIMIT
            /\ consecutive_losses' < MAX_CONSECUTIVE_LOSSES ]_vars

(***************************************************************************)
(* OrderManager (src/src/order_manager.py)                                 *)
(*                                                                         *)
(* Order ids are positions in `orders`: the k-th bracket has its entry at  *)
(* 3k-2, its stop loss at 3k-1 and its target at 3k.  Every public method   *)
(* runs under `async with self._lock`, so the methods are atomic with       *)
(* respect to each other.  asyncio.Lock is not reentrant: a method that     *)
(* calls cancel_order while it holds the lock waits for itself forever;     *)
(* lockHolder then names the blocked method and the lock is never released. *)
(***************************************************************************)
NewOrder(role, quantity, parent) ==
    [role |-> role, state |-> "PENDING", quantity |-> quantity,
     price |-> IF role = "tp" THEN OMTargetPrice ELSE NoPrice,
     stop_price |-> IF role = "sl" THEN OMStopPrice ELSE NoPrice,
     filled_quantity |-> 0, api_order_id |-> FALSE, parent |-> parent]

\* _place_order: the broker accepted the order (WORKING) or not (REJECTED)
PlaceOrderOM(o, accepted) ==
    IF accepted THEN [o EXCEPT !.state = "WORKING", !.api_order_id = TRUE]
                ELSE [o EXCEPT !.state = "REJECTED"]

\* the other exit order of the same bracket (linked_orders of an exit order)
Sibling(id) == IF orders[id].role = "sl" THEN id + 1 ELSE id - 1

Called(op, id, st, res) ==
    omCall' = [n |-> omCall.n + 1, op |-> op, order_id |-> id, new_state |-> st,
               result |-> res]

\* place_bracket_order
PlaceBracketOrder ==
    /\ lockHolder = "free"
    /\ omCall.n < MaxCalls
    /\ Len(orders) < 3 * MaxBrackets
    /\ \E quantity \in Quantities, accepted \in BOOLEAN :
         LET id == Len(orders) + 1
         IN  /\ apiLog' = Append(apiLog, <<"place", id>>)
             /\ IF accepted
                THEN /\ orders' = orders \o
                          << PlaceOrderOM(NewOrder("entry", quantity, 0), TRUE),
                             NewOrder("sl", quantity, id),
                             NewOrder("tp", quantity, id) >>
                     /\ brackets' = brackets \cup {id}
                     /\ oco_groups' = oco_groups \cup {id}
                     /\ Called("place_bracket_order", id, "none", "True")
                ELSE /\ UNCHANGED <<orders, brackets, oco_groups>>
                     /\ Called("place_bracket_order", id, "none", "False")
    /\ UNCHANGED lockHolder

\* update_order_state with everything it calls
UpdateOrderState ==
    /\ lockHolder = "free"
    /\ omCall.n < MaxCalls
    /\ \E id \in {0} \cup DOMAIN orders, new_state \in OrderStates \ {"PENDING"},
          filled \in {NoFill, 1, 2}, okSl \in BOOLEAN, okTp \in BOOLEAN :
         IF id = 0
         THEN /\ Called("update_order_state", id, new_state, "False")
              /\ UNCHANGED <<orders, oco_groups, lockHolder, apiLog>>
         ELSE
           LET o1 == [orders EXCEPT ![id].state = new_state,
                                    ![id].filled_quantity =
                                        IF filled # NoFill THEN filled ELSE @]
               isEntry == id \in brackets
           IN
             IF new_state = "FILLED" /\ isEntry
             THEN \* _handle_order_filled: place both exits; the entry is in no OCO group
                  /\ orders' = [o1 EXCEPT ![id + 1] = PlaceOrderOM(@, okSl),
                                          ![id + 2] = PlaceOrderOM(@, okTp)]
                  /\ apiLog' = apiLog \o << <<"place", id + 1>>, <<"place", id + 2>> >>
                  /\ Called("update_order_state", id, new_state, "True")
                  /\ UNCHANGED <<oco_groups, lockHolder>>
             ELSE IF new_state = "FILLED"
             THEN \* _handle_oco_fill
                  IF orders[id].parent \in oco_groups
                  THEN IF o1[Sibling(id)].state \in {"PENDING", "WORKING"}
                       THEN \* cancel_order waits for the lock this method holds
                            /\ orders' = o1
                            /\ lockHolder' = "update_order_state"
                            /\ Called("update_order_state", id, new_state, "blocked")
                            /\ UNCHANGED <<oco_groups, apiLog>>
                       ELSE /\ orders' = o1
                            /\ oco_groups' = oco_groups \ {orders[id].parent}
                            /\ Called("update_order_state", id, new_state, "True")
                            /\ UNCHANGED <<lockHolder, apiLog>>
                  ELSE /\ orders' = o1
                       /\ Called("update_order_state", id, new_state, "True")
                       /\ UNCHANGED <<oco_groups, lockHolder, apiLog>>
             ELSE IF new_state = "PARTIALLY_FILLED" /\ isEntry
             THEN \* _handle_partial_fill
                  /\ orders' = [o1 EXCEPT ![id + 1].quantity = o1[id].filled_quantity,
                                          ![id + 2].quantity = o1[id].filled_quantity]
                  /\ Called("update_order_state", id, new_state, "True")
                  /\ UNCHANGED <<oco_groups, lockHolder, apiLog>>
             ELSE IF new_state \in {"CANCELLED", "REJECTED"} /\ isEntry
             THEN \* _handle_order_cancelled: cancel_order waits for the held lock
                  /\ orders' = o1
                  /\ lockHolder' = "update_order_state"
                  /\ Called("update_order_state", id, new_state, "blocked")
                  /\ UNCHANGED <<oco_groups, apiLog>>
             ELSE /\ orders' = o1
                  /\ Called("update_order_state", id, new_state, "True")
                  /\ UNCHANGED <<oco_groups, lockHolder, apiLog>>
    /\ UNCHANGED brackets

\* cancel_order called from outside the manager
CancelOrder ==
    /\ lockHolder = "free"
    /\ omCall.n < MaxCalls
    /\ \E id \in {0} \cup DOMAIN orders, apiOk \in BOOLEAN :
         IF id = 0 \/ orders[id].state \in {"FILLED", "CANCELLED"}
                   \/ ~orders[id].api_order_id
         THEN /\ Called("cancel_order", id, "none", "False")
              /\ UNCHANGED <<orders, apiLog>>
         ELSE /\ apiLog' = Append(apiLog, <<"cancel", id>>)
              /\ IF apiOk
                 THEN /\ orders' = [orders EXCEPT ![id].state = "CANCELLED"]
                      /\ Called("cancel_order", id, "none", "True")
                 ELSE /\ UNCHANGED orders
                      /\ Called("cancel_order", id, "none", "False")
    /\ UNCHANGED <<brackets, oco_groups, lockHolder>>

\* modify_order: the fields are overwritten before the broker is asked
ModifyOrder ==
    /\ lockHolder = "free"
    /\ omCall.n < MaxCalls
    /\ \E id \in {0} \cup DOMAIN orders, req \in ModifyRequests, apiOk \in BOOLEAN :
         IF id = 0 \/ orders[id].state \notin {"PENDING", "WORKING"}
         THEN /\ Called("modify_order", id, "none", "False")
              /\ UNCHANGED <<orders, apiLog>>
         ELSE /\ orders' = [orders EXCEPT
                     ![id].quantity = IF req.new_quantity # NoFill
                                      THEN req.new_quantity ELSE @,
                     ![id].price = IF req.new_price # NoPrice THEN req.new_price ELSE @,
                     ![id].stop_price = IF req.new_stop_price # NoPrice
                                        THEN req.new_stop_price ELSE @]
              /\ IF ~orders[id].api_order_id
                 THEN /\ Called("modify_order", id, "none", "False")
                      /\ UNCHANGED apiLog
                 ELSE /\ apiLog' = Append(apiLog, <<"modify", id>>)
                      /\ Called("modify_order", id, "none",
                                IF apiOk THEN "True" ELSE "False")
    /\ UNCHANGED <<brackets, oco_groups, lockHolder>>

\* get_open_orders: the ids of the orders in an open state
GetOpenOrders ==
    { id \in DOMAIN orders :
        orders[id].state \in {"PENDING", "WORKING", "PARTIALLY_FILLED"} }

InitBotIdle ==
    /\ variant = "live"
    /\ t0 = 0
    /\ now = 0
    /\ is_running = FALSE
    /\ pc = "init"
    /\ wake = 0
    /\ current_price = 0
    /\ daily_pnl = 0
    /\ consecutive_losses = 0
    /\ last_signal_time = NoTime
    /\ positions = <<>>
    /\ total_trades = 0
    /\ winning_trades = 0
    /\ losing_trades = 0
    /\ pending = NoOrder
    /\ lastOrder = NoOrder
    /\ callSeq = 0
    /\ lastOk = NoTime
    /\ cycle = "none"
    /\ history = <<>>
    /\ nEvents = 0

InitOM == InitBotIdle /\ InitOMIdle /\ InitValIdle

NextOM ==
    \/ PlaceBracketOrder /\ UNCHANGED <<botvars, valvars>>
    \/ UpdateOrderState /\ UNCHANGED <<botvars, valvars>>
    \/ CancelOrder /\ UNCHANGED <<botvars, valvars>>
    \/ ModifyOrder /\ UNCHANGED <<botvars, valvars>>

SpecOM == InitOM /\ [][NextOM]_vars

\* C4: for a bracket whose entry is FILLED and whose stop and target are both
\* WORKING, the update that reports one exit FILLED cancels the other: the
\* cancel request reaches the broker and the other exit ends CANCELLED.
C4_OcoCancel ==
    [][ \A id \in DOMAIN orders :
          ( /\ omCall'.n # omCall.n
            /\ omCall'.op = "update_order_state"
            /\ omCall'.new_state = "FILLED"
            /\ omCall'.order_id = id
            /\ orders[id].role \in {"sl", "tp"}
            /\ orders[orders[id].parent].state = "FILLED"
            /\ orders[id].state = "WORKING"
            /\ orders[Sibling(id)].state = "WORKING" )
          => /\ orders'[Sibling(id)].state = "CANCELLED"
             /\ \E i \in DOMAIN apiLog' : apiLog'[i] = <<"cancel", Sibling(id)>> ]_vars

\* C25: every call of update_order_state returns, for every order and every
\* new state (FILLED for an exit whose OCO sibling is still working, CANCELLED
\* for an entry order included): no call is left blocked and the manager's
\* lock is free after each call.
C25_UpdateReturns ==
    /\ omCall.result # "blocked"
    /\ lockHolder = "free"

\* how many times an order was submitted to the broker
Placed(log, id) == Cardinality({ i \in DOMAIN log : log[i] = <<"place", id>> })

\* C26: the stop-loss and target orders of a bracket are submitted to the
\* broker only after the entry order has been reported FILLED, and each of them
\* at most once, however many state updates arrive for the entry order.
C26_ExitsPlacedOnce ==
    [][ \A id \in DOMAIN orders' :
          orders'[id].role \in {"sl", "tp"} =>
              /\ Placed(apiLog', id) <= 1
              /\ Placed(apiLog', id) > Placed(apiLog, id) =>
                     orders'[orders'[id].parent].state = "FILLED" ]_vars

\* C27: when the entry order of a bracket becomes CANCELLED before it has
\* filled (its exits were never submitted), both the stop-loss and the target
\* order end CANCELLED and get_open_orders no longer returns them.
C27_EntryCancelled ==
    [][ \A id \in brackets :
          ( /\ omCall'.n # omCall.n
            /\ omCall'.op = "update_order_state"
            /\ omCall'.order_id = id
            /\ omCall'.new_state = "CANCELLED"
            /\ orders[id].state # "FILLED"
            /\ orders[id + 1].state = "PENDING"
            /\ orders[id + 2].state = "PENDING" )
          => /\ orders'[id + 1].state = "CANCELLED"
             /\ orders'[id + 2].state = "CANCELLED"
             /\ GetOpenOrders' \cap {id + 1, id + 2} = {} ]_vars

\* the manager driven by broker reports and cancellations only
NextFills ==
    \/ PlaceBracketOrder /\ UNCHANGED <<botvars, valvars>>
    \/ UpdateOrderState /\ UNCHANGED <<botvars, valvars>>
    \/ CancelOrder /\ UNCHANGED <<botvars, valvars>>

SpecFills == InitOM /\ [][NextFills]_vars

\* C28: when the entry order of a bracket is reported FILLED, the quantity of
\* its stop-loss order and of its target order equals the entry order's
\* quantity, whatever PARTIALLY_FILLED updates preceded the fill.
C28_ExitQuantity ==
    [][ \A id \in brackets :
          ( /\ omCall'.n # omCall.n
            /\ omCall'.op = "update_order_state"
            /\ omCall'.order_id = id
            /\ omCall'.new_state = "FILLED" )
          => /\ orders'[id + 1].quantity = orders'[id].quantity
             /\ orders'[id + 2].quantity = orders'[id].quantity ]_vars

TerminalStates == {"FILLED", "CANCELLED", "REJECTED", "EXPIRED"}

\* C29: an order in a terminal state (FILLED, CANCELLED, REJECTED, EXPIRED)
\* never changes state again, whatever update_order_state, cancel_order and
\* modify_order calls follow.
C29_TerminalStable ==
    [][ \A id \in DOMAIN orders :
          orders[id].state \in TerminalStates =>
              orders'[id].state = orders[id].state ]_vars

\* C30: when modify_order returns failure (order not found, order not PENDING
\* or WORKING, or the broker rejects the modification), quantity, price and
\* stop_price of every order are what they were before the call.
C30_ModifyFailureFrame ==
    [][ ( /\ omCall'.n # omCall.n
          /\ omCall'.op = "modify_order"
          /\ omCall'.result = "False" )
        => \A id \in DOMAIN orders :
             /\ orders'[id].quantity = orders[id].quantity
             /\ orders'[id].price = orders[id].price
             /\ orders'[id].stop_price = orders[id].stop_price ]_vars

(***************************************************************************)
(* DataValidator.validate_order_params as a function of its arguments      *)
(***************************************************************************)
ValSides == {"BUY", "SELL", "HOLD"}
ValQuantities == {-1, 0, 1, 2, 50, 51}
ValPrices == {-8200, 0, 8140, 8200, 8260, 8500, 88160, 88200, 88240}

InitVal ==
    /\ InitBotIdle
    /\ InitOMIdle
    /\ vin \in [side : ValSides, quantity : ValQuantities, stop : ValPrices,
                target : ValPrices, entry : ValPrices]
    /\ vout = "none"

\* one call of validate_order_params on the drawn arguments
Validate ==
    /\ vout = "none"
    /\ vout' = ValidateOrderParams(vin.side, vin.quantity, vin.stop, vin.target,
                                   vin.entry)
    /\ UNCHANGED <<vin, botvars, omvars>>

NextVal == Validate

SpecVal == InitVal /\ [][NextVal]_vars

\* C10: validate_order_params raises whenever the side is not BUY/SELL, the
\* quantity is not positive or outside the position limits, a price is <= 0, the
\* stop is further from the entry than the maximum stop distance, or the stop
\* or target is on the wrong side; and it accepts every BUY with
\* stop < entry < target and every SELL with target < entry < stop whose
\* quantity and stop distance are within the limits.
C10_ValidateOrderParams ==
    vout # "none" =>
        LET mustRaise ==
                \/ vin.side \notin {"BUY", "SELL"}
                \/ vin.quantity <= 0
                \/ vin.quantity < MIN_POSITION \/ vin.quantity > MAX_POSITION
                \/ vin.stop <= 0 \/ vin.target <= 0 \/ vin.entry <= 0
                \/ Abs(vin.entry - vin.stop) > MAX_STOP_TICKS
                \/ vin.side = "BUY" /\ (vin.stop >= vin.entry \/ vin.target <= vin.entry)
                \/ vin.side = "SELL" /\ (vin.stop <= vin.entry \/ vin.target >= vin.entry)
            mustAccept ==
                /\ vin.quantity >= MIN_POSITION /\ vin.quantity <= MAX_POSITION
                /\ vin.stop > 0 /\ vin.target > 0 /\ vin.entry > 0
                /\ Abs(vin.entry - vin.stop) <= MAX_STOP_TICKS
                /\ \/ vin.side = "BUY" /\ vin.stop < vin.entry /\ vin.entry < vin.target
                   \/ vin.side = "SELL" /\ vin.target < vin.entry /\ vin.entry < vin.stop
        IN  /\ mustRaise => vout # "ok"
            /\ mustAccept => vout = "ok"

(***************************************************************************)
(* BaseGoldBot.can_trade as a function of daily_pnl, consecutive_losses    *)
(* and the local time of day                                               *)
(***************************************************************************)
GatePnls == {-80001, -80000, -79999, 0, 15000}
GateLosses == 0 .. 3
GateTimes == {0, 7199, 7200, 43200, 81899, 81900, 82800, 82801, 86399}

InitGate ==
    /\ InitBotIdle
    /\ InitOMIdle
    /\ vin \in [daily_pnl : GatePnls, consecutive_losses : GateLosses,
                tod : GateTimes]
    /\ vout = "none"

\* one call of can_trade on the drawn state
CallCanTrade ==
    /\ vout = "none"
    /\ vout' = IF CanTrade(vin.daily_pnl, vin.consecutive_losses, vin.tod)
               THEN "True" ELSE "False"
    /\ UNCHANGED <<vin, botvars, omvars>>

NextGate == CallCanTrade

SpecGate == InitGate /\ [][NextGate]_vars

\* C11: can_trade returns False whenever consecutive_losses >=
\* MAX_CONSECUTIVE_LOSSES, and it returns True exactly when no reject condition
\* holds: daily_pnl above -DAILY_LOSS_LIMIT, consecutive_losses below the
\* maximum, the time inside [SESSION_START, SESSION_END] and before
\* NEWS_BLACKOUT_START.
C11_CanTrade ==
    vout # "none" =>
        /\ vin.consecutive_losses >= MAX_CONSECUTIVE_LOSSES => vout = "False"
        /\ vout = "True" <=>
               /\ vin.daily_pnl > -DAILY_LOSS_LIMIT
               /\ vin.consecutive_losses < MAX_CONSECUTIVE_LOSSES
               /\ SESSION_START <= vin.tod /\ vin.tod <= SESSION_END
               /\ vin.tod < NEWS_BLACKOUT_START

\* the loss count alone closes the gate: P&L and time of day would allow trading
C11_Witness ==
    /\ vout = "False"
    /\ vin.consecutive_losses = MAX_CONSECUTIVE_LOSSES
    /\ vin.daily_pnl = 0
    /\ vin.tod = 43200

(***************************************************************************)
(* Signal selection: the scoring loops of BaseGoldBot.trading_loop (one    *)
(* list of patterns) and LiveGoldBot.trading_loop (one list per timeframe, *)
(* visited in the insertion order of mtf_patterns, which is the order of   *)
(* ANALYSIS_TIMEFRAMES).  Only the first two analysis timeframes are kept. *)
(***************************************************************************)
ANALYSIS_TIMEFRAMES == <<"1m", "5m">>
PRIMARY_TIMEFRAME == "5m"
PatternIndexes == {380, 395}
SelectScores == {40, 70, 100}

\* the scored patterns of one timeframe, in the ascending index order in which
\* find_order_blocks appends them
ScoredLists(tf) ==
    LET pat(i, s) == [type |-> "bullish", level |-> 8200, score |-> s,
                      index |-> i, timeframe |-> tf]
    IN  {<<>>}
        \cup {<<pat(i, s)>> : i \in PatternIndexes, s \in SelectScores}
        \cup {<<pat(380, s1), pat(395, s2)>> : s1 \in SelectScores, s2 \in SelectScores}

RECURSIVE Flatten(_, _)
\* the order in which the nested loops visit the patterns
Flatten(mtf, k) ==
    IF k > Len(ANALYSIS_TIMEFRAMES) THEN <<>>
    ELSE mtf[ANALYSIS_TIMEFRAMES[k]] \o Flatten(mtf, k + 1)

\* the patterns the loop of the variant scores, in visiting order
Visited(v, mtf) == IF v = "live" THEN Flatten(mtf, 1) ELSE mtf[PRIMARY_TIMEFRAME]

InitSelect ==
    /\ InitBotIdle
    /\ InitOMIdle
    /\ vin \in {[variant |-> "live", mtf_patterns |-> [tf \in {"1m", "5m"} |->
                    IF tf = "1m" THEN a ELSE b]] :
                    a \in ScoredLists("1m"), b \in ScoredLists("5m")}
               \cup {[variant |-> "mock", mtf_patterns |-> [tf \in {"1m", "5m"} |->
                    IF tf = "1m" THEN <<>> ELSE b]] : b \in ScoredLists("5m")}
    /\ vout = [called |-> FALSE, best_signal |-> NoSignal]

\* one pass of the scoring loop
SelectSignal ==
    /\ ~vout.called
    /\ vout' = [called |-> TRUE,
                best_signal |-> BestSignal(Visited(vin.variant, vin.mtf_patterns))]
    /\ UNCHANGED <<vin, botvars, omvars>>

NextSelect == SelectSignal

SpecSelect == InitSelect /\ [][NextSelect]_vars

\* C12: the chosen signal is a candidate with score >= MIN_PATTERN_SCORE whose
\* score is the maximum of the cycle; among candidates with equal maximal score
\* the one with the earliest detection index is chosen, not the one the
\* iteration over timeframes meets first; when no candidate reaches the
\* threshold nothing is selected.
C12_Selection ==
    vout.called =>
        LET cands == Visited(vin.variant, vin.mtf_patterns)
            qualifying == {k \in 1 .. Len(cands) : cands[k].score >= MIN_PATTERN_SCORE}
            best == vout.best_signal
        IN  IF qualifying = {}
            THEN best.type = "none"
            ELSE /\ best.type # "none"
                 /\ best.score >= MIN_PATTERN_SCORE
                 /\ \E k \in qualifying :
                        /\ cands[k].index = best.index
                        /\ cands[k].timeframe = best.timeframe
                        /\ cands[k].score = best.score
                 /\ \A k \in qualifying : cands[k].score <= best.score
                 /\ \A k \in qualifying :
                        cands[k].score = best.score => best.index <= cands[k].index

(***************************************************************************)
(* Candle series, DataValidator.validate_candles_df and                    *)
(* BaseGoldBot.find_order_blocks.  A series is a sequence of candle        *)
(* records; the candle with the 0-based position i of the code is At(df,i).*)
(* NaN stands for a missing value: validation tests for it before any      *)
(* comparison reads the field.                                             *)
(***************************************************************************)
ROLLING_WINDOW == 20
MAX_PATTERN_AGE_CANDLES == 50
MIN_CANDLES == 3
MAX_PRICE_CHANGE_DIV == 20
NaN == -1000000

At(df, i) == df[i + 1]

PriceColumns == <<"open", "high", "low", "close">>
RequiredColumns == {"open", "high", "low", "close", "volume"}

ColumnMin(df, col) ==
    CHOOSE m \in {df[k][col] : k \in DOMAIN df} : \A k \in DOMAIN df : m <= df[k][col]

ColumnMax(df, col) ==
    CHOOSE m \in {df[k][col] : k \in DOMAIN df} : \A k \in DOMAIN df : m >= df[k][col]

\* price_changes > MAX_PRICE_CHANGE_PCT, where price_changes is
\* abs(close / previous close - 1) in binary floating point: for a change of
\* exactly 5% the quotient rounds to 1.05 (or 0.95) and the difference to
\* 0.05000000000000004, which compares greater than the constant 0.05
ExtremeMove(prev, cur) ==
    LET d == MAX_PRICE_CHANGE_DIV * Abs(cur - prev)
    IN  d > prev \/ d = prev

\* validate_candles_df: "ok", or the check that raises DataValidationError
ValidateCandlesDf(df) ==
    LET nonpositive(col) == ColumnMin(df, col) <= 0
        outside(col) == \/ ColumnMin(df, col) < MIN_GOLD_PRICE
                        \/ ColumnMax(df, col) > MAX_GOLD_PRICE
        bad(col) == nonpositive(col) \/ outside(col)
        \* the first column, in the order of the loop, that fails a check (0: none)
        j == IF \E h \in DOMAIN PriceColumns : bad(PriceColumns[h])
             THEN CHOOSE h \in DOMAIN PriceColumns :
                      /\ bad(PriceColumns[h])
                      /\ \A g \in 1 .. h - 1 : ~bad(PriceColumns[g])
             ELSE 0
    IN  IF Len(df) = 0 THEN "empty"
        ELSE IF Len(df) < MIN_CANDLES THEN "insufficient"
        ELSE IF \E k \in DOMAIN df : \E col \in RequiredColumns : df[k][col] = NaN
             THEN "nan"
        ELSE IF j # 0
             THEN IF nonpositive(PriceColumns[j]) THEN "nonpositive" ELSE "range"
        ELSE IF \E k \in DOMAIN df : df[k].high < Max(df[k].open, df[k].close)
             THEN "invalid_high"
        ELSE IF \E k \in DOMAIN df : df[k].low > Min(df[k].open, df[k].close)
             THEN "invalid_low"
        ELSE IF \E k \in 2 .. Len(df) : ExtremeMove(df[k - 1].close, df[k].close)
             THEN "extreme_move"
        ELSE IF \E k \in DOMAIN df : df[k].volume < 0 THEN "negative_volume"
        ELSE "ok"

BodySize(c) == Abs(c.close - c.open)

RECURSIVE SumBody(_, _, _)
\* the sum of body_size over the positions lo .. hi
SumBody(df, lo, hi) ==
    IF lo > hi THEN 0 ELSE BodySize(At(df, hi)) + SumBody(df, lo, hi - 1)

AvgBodyDefinedAlways(i) == TRUE

\* rolling(20).mean() is NaN until the window of 20 rows ending at i is full
AvgBodyDefined(i) == i >= ROLLING_WINDOW - 1

\* ROLLING_WINDOW * avg_body[i]: the window is the 20 rows ending at row i
RollingBodySum(df, i) == SumBody(df, Max(0, i - ROLLING_WINDOW + 1), i)

StartIndexZero(n, max_age) == 0

\* start_index = max(0, len(df) - max_age)
StartIndex(n, max_age) == Max(0, n - max_age)

\* body_size > avg_body * 1.5
LargeBody(c, sum) == 2 * ROLLING_WINDOW * BodySize(c) > 3 * sum

IsBullishBlockNoBreak(current, next_candle, sum) ==
    /\ current.close < current.open
    /\ LargeBody(current, sum)
    /\ next_candle.close > next_candle.open

IsBullishBlock(current, next_candle, sum) ==
    /\ current.close < current.open
    /\ LargeBody(current, sum)
    /\ next_candle.close > current.high
    /\ next_candle.close > next_candle.open

IsBearishBlock(current, next_candle, sum) ==
    /\ current.close > current.open
    /\ LargeBody(current, sum)
    /\ next_candle.close < current.low
    /\ next_candle.close < next_candle.open

\* strength = min(body_size / avg_body, 3.0), in tenths (rounded down; a block
\* has body_size > 1.5 * avg_body, so the scorer's min(strength * 2, 3) is 3
\* with or without the rounding)
Strength(c, sum) == Min((10 * ROLLING_WINDOW * BodySize(c)) \div sum, 30)

\* the dict appended for a block at position i (without top / bottom, which
\* neither the scorer nor the order planner reads)
OrderBlock(type, df, i, sum) ==
    [type |-> type,
     level |-> IF type = "bullish" THEN At(df, i).low ELSE At(df, i).high,
     index |-> i,
     timestamp |-> At(df, i).timestamp,
     strength |-> Strength(At(df, i), sum)]

RECURSIVE Scan(_, _)
\* the detection loop from position i to len(df) - 2
Scan(df, i) ==
    IF i > Len(df) - 2 THEN <<>>
    ELSE LET current == At(df, i)
             next_candle == At(df, i + 1)
             sum == RollingBodySum(df, i)
         IN  IF ~AvgBodyDefined(i) \/ sum <= 0 THEN Scan(df, i + 1)
             ELSE IF IsBullishBlock(current, next_candle, sum)
                  THEN <<OrderBlock("bullish", df, i, sum)>> \o Scan(df, i + 1)
             ELSE IF IsBearishBlock(current, next_candle, sum)
                  THEN <<OrderBlock("bearish", df, i, sum)>> \o Scan(df, i + 1)
             ELSE Scan(df, i + 1)

\* find_order_blocks: whether the detection loop ran, and the list returned
FindOrderBlocks(df, max_age) ==
    IF Len(df) < MIN_CANDLES
    THEN [validation |-> "short", scanned |-> FALSE, order_blocks |-> <<>>]
    ELSE LET v == ValidateCandlesDf(df)
         IN  IF v # "ok"
             THEN [validation |-> v, scanned |-> FALSE, order_blocks |-> <<>>]
             ELSE [validation |-> v, scanned |-> TRUE,
                   order_blocks |-> Scan(df, StartIndex(Len(df), max_age))]

(***************************************************************************)
(* find_order_blocks as a function of the series and the age limit.  The   *)
(* series are built from a few candle shapes placed in a window of three   *)
(* consecutive positions of an otherwise uniform series.                   *)
(***************************************************************************)
Shape(o, h, l, c, v) == [open |-> o, high |-> h, low |-> l, close |-> c, volume |-> v]

BaseShape == Shape(8200, 8212, 8196, 8208, 1000)
FlatShape == Shape(8200, 8204, 8196, 8200, 1000)
BearLarge == Shape(8240, 8244, 8196, 8200, 3000)
BullLarge == Shape(8200, 8244, 8196, 8240, 3000)
UpBull == Shape(8200, 8264, 8196, 8260, 1000)
UpBear == Shape(8270, 8274, 8256, 8260, 1000)
DownBear == Shape(8240, 8244, 8176, 8180, 1000)
DownBull == Shape(8170, 8200, 8166, 8180, 1000)

ValidShapes == {BaseShape, FlatShape, BearLarge, BullLarge, UpBull, UpBear,
                DownBear, DownBull}

\* the candle of a shape at position i, stamped with the time of the position
CandleAt(shape, i) ==
    [timestamp |-> i, open |-> shape.open, high |-> shape.high, low |-> shape.low,
     close |-> shape.close, volume |-> shape.volume]

\* a series of n candles of shape filler, with the shapes w at the positions
\* s, s + 1, ...
SeriesWith(n, s, w, filler) ==
    [k \in 1 .. n |->
        LET i == k - 1
        IN  IF i >= s /\ i < s + Len(w) THEN CandleAt(w[i - s + 1], i)
            ELSE CandleAt(filler, i)]

\* (length, window start, age limit) of the series drawn
DetectLayouts ==
    {<<3, 0, 50>>, <<21, 18, 50>>, <<30, 9, 50>>, <<30, 18, 50>>, <<30, 27, 50>>,
     <<30, 19, 10>>, <<72, 21, 50>>, <<72, 60, 50>>}

\* the series of the documented scenario: 30 flat candles except a large bearish
\* candle (open 2060, close 2050, high 2061, low 2049) at position k followed by
\* a bullish candle closing at 2065; a flat candle has no body, or a body of 2.00
ScenarioFlats == {Shape(8240, 8240, 8240, 8240, 1000), Shape(8236, 8244, 8236, 8244, 1000)}
ScenarioBlock == Shape(8240, 8244, 8196, 8200, 1000)
ScenarioNext == Shape(8200, 8260, 8200, 8260, 1000)
ScenarioPositions == {10, 20}

ScenarioSeries(k, flat) == SeriesWith(30, k, <<ScenarioBlock, ScenarioNext>>, flat)

\* shapes that break one candle invariant each, and two moves of the close from
\* the 2050.00 of FlatShape: exactly 5%, and more than 5%
BadHigh == Shape(8200, 8204, 8196, 8208, 1000)
BadLow == Shape(8208, 8212, 8204, 8200, 1000)
NaNClose == Shape(8200, 8212, 8196, NaN, 1000)
BelowRange == Shape(396, 400, 392, 396, 1000)
NegativeVolume == Shape(8200, 8212, 8196, 8208, -1)
UpFivePct == Shape(8200, 8610, 8196, 8610, 1000)
UpSixPct == Shape(8200, 8700, 8196, 8692, 1000)

CheckedShapes == {BaseShape, FlatShape, BadHigh, BadLow, NaNClose, BelowRange,
                  NegativeVolume, UpFivePct, UpSixPct}

TimestampModes == {"increasing", "repeated", "decreasing"}

\* the series with its timestamps as the data source delivered them
Restamp(df, mode) ==
    [k \in DOMAIN df |->
        [df[k] EXCEPT !.timestamp =
            IF mode = "increasing" THEN k - 1
            ELSE IF mode = "repeated" THEN Max(k - 2, 0)
            ELSE Len(df) - k]]

DetectInputs ==
    {[candles |-> SeriesWith(lay[1], lay[2], <<a, b, c>>, BaseShape),
      max_age |-> lay[3]] :
        lay \in DetectLayouts, a \in ValidShapes, b \in ValidShapes, c \in ValidShapes}
    \cup {[candles |-> Restamp(ScenarioSeries(k, flat), mode),
           max_age |-> MAX_PATTERN_AGE_CANDLES] :
            k \in ScenarioPositions, flat \in ScenarioFlats, mode \in TimestampModes}
    \cup {[candles |-> Restamp(SeriesWith(3, 0, <<a, b, c>>, BaseShape), mode),
           max_age |-> MAX_PATTERN_AGE_CANDLES] :
            a \in CheckedShapes, b \in CheckedShapes, c \in CheckedShapes,
            mode \in TimestampModes}
    \cup {[candles |-> SeriesWith(n, 0, <<a, b>>, BaseShape),
           max_age |-> MAX_PATTERN_AGE_CANDLES] :
            n \in 0 .. 2, a \in CheckedShapes, b \in CheckedShapes}

NotCalled == [validated |-> "none", called |-> FALSE, validation |-> "none",
              scanned |-> FALSE, order_blocks |-> <<>>]

InitDetect ==
    /\ InitBotIdle
    /\ InitOMIdle
    /\ vin \in DetectInputs
    /\ vout = NotCalled

\* one call of validate_candles_df on the drawn series (as get_candles makes it)
ValidateCandles ==
    /\ vout.validated = "none"
    /\ vout' = [vout EXCEPT !.validated = ValidateCandlesDf(vin.candles)]
    /\ UNCHANGED <<vin, botvars, omvars>>

\* one call of find_order_blocks on the drawn series
Detect ==
    /\ ~vout.called
    /\ LET r == FindOrderBlocks(vin.candles, vin.max_age)
       IN  vout' = [vout EXCEPT !.called = TRUE, !.validation = r.validation,
                                !.scanned = r.scanned,
                                !.order_blocks = r.order_blocks]
    /\ UNCHANGED <<vin, botvars, omvars>>

NextDetect == ValidateCandles \/ Detect

SpecDetect == InitDetect /\ [][NextDetect]_vars

\* the positions at which the returned list has a pattern
EmittedIndexes == {vout.order_blocks[k].index : k \in DOMAIN vout.order_blocks}

C16_MaxAge ==
    vout.called =>
        \A k \in DOMAIN vout.order_blocks :
            vout.order_blocks[k].index >= Len(vin.candles) - vin.max_age

\* a block older than the age limit was skipped while a younger one was emitted
C16_Witness ==
    /\ vout.called
    /\ Len(vin.candles) = 72
    /\ EmittedIndexes = {22}
    /\ IsBullishBlock(At(vin.candles, 21), At(vin.candles, 22),
                      RollingBodySum(vin.candles, 21))

\* C17: avg_body[i] is the mean body of the 20 candles preceding i and is
\* undefined for i < 20; find_order_blocks emits no pattern at a position where
\* avg_body is undefined (no index i < 20), and the body of every block exceeds
\* 1.5 x that mean.
C17_AvgBodyDefined ==
    vout.called =>
        \A k \in DOMAIN vout.order_blocks :
            LET i == vout.order_blocks[k].index
            IN  /\ i >= ROLLING_WINDOW
                /\ 2 * ROLLING_WINDOW * BodySize(At(vin.candles, i))
                      > 3 * SumBody(vin.candles, i - ROLLING_WINDOW, i - 1)

\* C18: for the 30-candle series that is flat except for candle 10 (large
\* bearish: open 2060, close 2050, high 2061, low 2049) and candle 11 (bullish,
\* closing at 2065), find_order_blocks emits exactly one pattern: bullish,
\* index 10, level 2049.
C18_Scenario ==
    (vout.called /\ \E flat \in ScenarioFlats : vin.candles = ScenarioSeries(10, flat)) =>
        /\ Len(vout.order_blocks) = 1
        /\ vout.order_blocks[1].type = "bullish"
        /\ vout.order_blocks[1].index = 10
        /\ vout.order_blocks[1].level = 8196

\* C18 as amended: for that series nothing is emitted (the rolling average is
\* not yet defined at position 10); with the same two candles at positions 20
\* and 21 exactly one pattern is emitted: bullish, index 20, level 2049.
C18_ScenarioAmended ==
    vout.called =>
        /\ (\E flat \in ScenarioFlats : vin.candles = ScenarioSeries(10, flat))
               => vout.order_blocks = <<>>
        /\ (\E flat \in ScenarioFlats : vin.candles = ScenarioSeries(20, flat)) =>
               /\ Len(vout.order_blocks) = 1
               /\ vout.order_blocks[1].type = "bullish"
               /\ vout.order_blocks[1].index = 20
               /\ vout.order_blocks[1].level = 8196

C18_Witness ==
    /\ vout.called
    /\ vout.scanned
    /\ \E flat \in ScenarioFlats : vin.candles = ScenarioSeries(20, flat)
    /\ Len(vout.order_blocks) = 1

\* the candle invariants of a series, stated on the candles themselves
NoNaN(df) == \A k \in DOMAIN df : \A col \in RequiredColumns : df[k][col] # NaN

OhlcHolds(df) ==
    \A k \in DOMAIN df : /\ df[k].high >= Max(df[k].open, df[k].close)
                         /\ df[k].low <= Min(df[k].open, df[k].close)

CandleInvariants(df) ==
    /\ NoNaN(df)
    /\ \A k \in DOMAIN df : \A j \in DOMAIN PriceColumns :
           /\ df[k][PriceColumns[j]] >= MIN_GOLD_PRICE
           /\ df[k][PriceColumns[j]] <= MAX_GOLD_PRICE
    /\ OhlcHolds(df)
    /\ \A k \in 2 .. Len(df) :
           MAX_PRICE_CHANGE_DIV * Abs(df[k].close - df[k - 1].close) <= df[k - 1].close
    /\ \A k \in DOMAIN df : df[k].volume >= 0

\* C19: validate_candles_df rejects every series in which some candle has
\* high < max(open, close) or low > min(open, close), and accepts every series of
\* at least 3 candles that satisfies all candle invariants (no NaN, prices in
\* range, OHLC relations, no close-to-close change above 5%, no negative
\* volume); a rejected series is never passed on to pattern detection.
C19_Validation ==
    /\ vout.validated # "none" =>
           /\ ~OhlcHolds(vin.candles) => vout.validated # "ok"
           /\ (Len(vin.candles) >= MIN_CANDLES /\ CandleInvariants(vin.candles))
                  => vout.validated = "ok"
    /\ (vout.called /\ vout.validated \notin {"none", "ok"}) =>
           ~vout.scanned /\ vout.order_blocks = <<>>

\* C20: every series on which detection runs has at least 3 candles, no NaN,
\* the OHLC relation on every candle and strictly increasing timestamps; a
\* series with a repeated or decreasing timestamp is rejected by validation
\* before detection.
C20_Timestamps ==
    /\ vout.scanned =>
           /\ Len(vin.candles) >= MIN_CANDLES
           /\ NoNaN(vin.candles)
           /\ OhlcHolds(vin.candles)
           /\ \A k \in 2 .. Len(vin.candles) :
                  vin.candles[k - 1].timestamp < vin.candles[k].timestamp
    /\ vout.validated # "none" =>
           ((\E k \in 2 .. Len(vin.candles) :
                 vin.candles[k - 1].timestamp >= vin.candles[k].timestamp)
               => vout.validated # "ok")

(***************************************************************************)
(* BaseGoldBot.calculate_pattern_score and                                 *)
(* LiveGoldBot.calculate_mtf_pattern_score.  Scores are in tenths of a     *)
(* point; the strength of a pattern is in tenths.                          *)
(***************************************************************************)
PATTERN_VIOLATION_TOLERANCE_PERMILLE == 3
MAX_SCORE == 100
TREND_MIN_CANDLES == 20

RECURSIVE SumVolume(_, _, _)
SumVolume(df, lo, hi) ==
    IF lo > hi THEN 0 ELSE At(df, hi).volume + SumVolume(df, lo, hi - 1)

\* "ok", or the check of validate_pattern that raises
ValidatePattern(pattern) ==
    IF pattern.type \notin {"bullish", "bearish"} THEN "type"
    ELSE IF ValidatePrice(pattern.level) # "ok" THEN "level"
    ELSE IF pattern.index < 0 THEN "index"
    ELSE "ok"

\* +2 when the candle's volume exceeds 1.5 x the 20-row rolling mean at its row
VolumeBonus(pattern, df) ==
    LET i == pattern.index
        sum == SumVolume(df, i - ROLLING_WINDOW + 1, i)
    IN  IF /\ i < Len(df)
           /\ i >= ROLLING_WINDOW - 1
           /\ sum > 0
           /\ 2 * ROLLING_WINDOW * At(df, i).volume > 3 * sum
        THEN 20 ELSE 0

RecencyBonus(pattern, df) ==
    LET age == Len(df) - pattern.index
    IN  IF age < 10 THEN 20 ELSE IF age < 25 THEN 10 ELSE 0

\* +2 when the level has not been violated from the pattern's row to the end; on
\* an empty slice min() / max() is NaN and the comparison is False
CleanMoveBonus(pattern, df) ==
    LET rows == {k \in DOMAIN df : k - 1 >= pattern.index}
        tol == PATTERN_VIOLATION_TOLERANCE_PERMILLE
    IN  IF rows = {} THEN 0
        ELSE IF pattern.type = "bullish"
             THEN IF \A k \in rows : 1000 * df[k].low > (1000 - tol) * pattern.level
                  THEN 20 ELSE 0
             ELSE IF \A k \in rows : 1000 * df[k].high < (1000 + tol) * pattern.level
                  THEN 20 ELSE 0

\* calculate_pattern_score: 0.0 when validate_pattern raises
CalculatePatternScore(pattern, df) ==
    IF ValidatePattern(pattern) # "ok" THEN 0
    ELSE Min(Min(2 * pattern.strength, 30) + VolumeBonus(pattern, df)
                 + RecencyBonus(pattern, df) + CleanMoveBonus(pattern, df), MAX_SCORE)

\* 2 * timeframe_weights.get(tf, 0.2)
ConfluenceWeight(tf) ==
    IF tf = "1m" THEN 4 ELSE IF tf = "5m" THEN 10 ELSE IF tf = "15m" THEN 6 ELSE 4

\* level_diff < 0.005 for a pattern level > 0 (the levels of detected patterns
\* are validated prices); a negative level makes the quotient negative
LevelsClose(other_level, pattern_level) ==
    IF pattern_level > 0 THEN 200 * Abs(other_level - pattern_level) < pattern_level
    ELSE pattern_level < 0

RECURSIVE SumConfluence(_, _, _, _)
\* the bonus collected from the patterns k .. of one other timeframe
SumConfluence(pattern, tf, patterns, k) ==
    IF k > Len(patterns) THEN 0
    ELSE (IF /\ patterns[k].type = pattern.type
             /\ LevelsClose(patterns[k].level, pattern.level)
          THEN ConfluenceWeight(tf) ELSE 0)
         + SumConfluence(pattern, tf, patterns, k + 1)

RECURSIVE MtfBonus(_, _, _, _)
MtfBonus(pattern, timeframe, mtf_patterns, j) ==
    IF j > Len(ANALYSIS_TIMEFRAMES) THEN 0
    ELSE LET tf == ANALYSIS_TIMEFRAMES[j]
         IN  (IF tf = timeframe THEN 0
              ELSE SumConfluence(pattern, tf, mtf_patterns[tf], 1))
             + MtfBonus(pattern, timeframe, mtf_patterns, j + 1)

TrendWeight(tf) ==
    IF tf = "1m" THEN 3 ELSE IF tf = "5m" THEN 5 ELSE IF tf = "15m" THEN 7 ELSE 3

RECURSIVE TrendAlignment(_, _, _, _)
\* calculate_trend_alignment; trends[tf] is the outcome of the comparison of the
\* two moving averages on the closes of the timeframe
TrendAlignment(pattern, mtf_data, trends, j) ==
    IF j > Len(ANALYSIS_TIMEFRAMES) THEN 0
    ELSE LET tf == ANALYSIS_TIMEFRAMES[j]
         IN  (IF Len(mtf_data[tf]) >= TREND_MIN_CANDLES /\ pattern.type = trends[tf]
              THEN TrendWeight(tf) ELSE 0)
             + TrendAlignment(pattern, mtf_data, trends, j + 1)

CalculateMtfPatternScoreNoCap(pattern, timeframe, mtf_data, mtf_patterns, trends) ==
    CalculatePatternScore(pattern, mtf_data[timeframe])
        + MtfBonus(pattern, timeframe, mtf_patterns, 1)
        + TrendAlignment(pattern, mtf_data, trends, 1)

CalculateMtfPatternScore(pattern, timeframe, mtf_data, mtf_patterns, trends) ==
    LET base_score == CalculatePatternScore(pattern, mtf_data[timeframe])
        mtf_bonus == MtfBonus(pattern, timeframe, mtf_patterns, 1)
        trend_bonus == TrendAlignment(pattern, mtf_data, trends, 1)
    IN  Min(base_score + mtf_bonus + trend_bonus, MAX_SCORE)

\* the series the scorer is called with: 30 candles with a block at 20, with
\* two adjacent blocks at 27 and 28 (the second with a volume spike), or none
ScoreSeries ==
    {SeriesWith(30, 20, <<BearLarge, UpBull, BaseShape>>, BaseShape),
     SeriesWith(30, 26, <<BullLarge, BearLarge, UpBull>>, BaseShape),
     SeriesWith(30, 20, <<BaseShape, BaseShape, BaseShape>>, BaseShape)}

\* arbitrary pattern dicts, including those that break a structural invariant
ScorePatterns ==
    [type : {"bullish", "bearish", "unknown"},
     level : {-8196, 0, 396, 8196, 8244},
     index : {-1, 5, 20, 27, 29, 30, 31},
     timestamp : {0},
     strength : {5, 10, 30}]

Trends == {"bullish", "bearish"}

\* find_mtf_order_blocks on the data of the two timeframes
FindMtfOrderBlocks(mtf_data) ==
    [tf \in DOMAIN mtf_data |->
        FindOrderBlocks(mtf_data[tf], MAX_PATTERN_AGE_CANDLES).order_blocks]

MtfInputs ==
    UNION {{[mode |-> "mtf", pattern |-> FindMtfOrderBlocks(d)[tf][k],
             timeframe |-> tf, mtf_data |-> d, trends |-> tr] :
               k \in DOMAIN FindMtfOrderBlocks(d)[tf]} :
           d \in [{"1m", "5m"} -> ScoreSeries], tr \in [{"1m", "5m"} -> Trends],
           tf \in {"1m", "5m"}}

ScoreInputs ==
    {[mode |-> "base", pattern |-> p, timeframe |-> PRIMARY_TIMEFRAME,
      mtf_data |-> [tf \in {"1m", "5m"} |-> df],
      trends |-> [tf \in {"1m", "5m"} |-> "bearish"]] :
        p \in ScorePatterns, df \in ScoreSeries}
    \cup MtfInputs

InitScore ==
    /\ InitBotIdle
    /\ InitOMIdle
    /\ vin \in ScoreInputs
    /\ vout = [called |-> FALSE, score |-> 0]

\* one call of calculate_pattern_score, or of calculate_mtf_pattern_score on a
\* pattern of mtf_patterns as the trading loop makes it
Score ==
    /\ ~vout.called
    /\ vout' = [called |-> TRUE,
                score |-> IF vin.mode = "base"
                          THEN CalculatePatternScore(vin.pattern,
                                                     vin.mtf_data[vin.timeframe])
                          ELSE CalculateMtfPatternScore(vin.pattern, vin.timeframe,
                                   vin.mtf_data, FindMtfOrderBlocks(vin.mtf_data),
                                   vin.trends)]
    /\ UNCHANGED <<vin, botvars, omvars>>

NextScore == Score

SpecScore == InitScore /\ [][NextScore]_vars

C14_FailClosed ==
    (vout.called /\ vin.mode = "base") =>
        LET p == vin.pattern
            df == vin.mtf_data[vin.timeframe]
        IN  ( \/ p.type \notin {"bullish", "bearish"}
              \/ p.level <= 0
              \/ p.index < 0
              \/ p.index >= Len(df) ) => vout.score = 0

(***************************************************************************)
(* The report of one loop iteration                                        *)
(*                                                                         *)
(* What a cycle leaves for the monitoring side is the status dictionary    *)
(* that update_monitoring writes to logs/status.json; execute_signal       *)
(* itself returns None on every path and only writes log lines.            *)
(* config.ACCOUNT_SIZE, which safe_update_monitoring reads, is taken as    *)
(* DEFAULT_ACCOUNT_SIZE, like the *_MGC attributes.                        *)
(***************************************************************************)
ACCOUNT_SIZE == 15000000

\* safe_update_monitoring: the status dictionary of the base bot
StatusUpdate(t, running, pnl, losses, npos, ntrades, last) ==
    [timestamp |-> t,
     is_alive  |-> running,
     mode      |-> "PRODUCTION",
     account   |-> [balance |-> ACCOUNT_SIZE + pnl, daily_pnl |-> pnl,
                    open_positions |-> npos, consecutive_losses |-> losses,
                    total_trades |-> ntrades],
     trading   |-> [can_trade |-> CanTrade(pnl, losses, TimeOfDay(t)),
                    last_signal |-> last, current_stage |-> "BASIC"],
     risk      |-> [daily_loss_remaining |-> DAILY_LOSS_LIMIT + pnl,
                    position_size |-> DEFAULT_POSITION_MGC,
                    max_risk_per_trade |-> MAX_RISK_PER_TRADE],
     performance |-> [total_trades |-> ntrades],
     next_update |-> t + MAIN_LOOP_DELAY_SECONDS]

\* LiveGoldBot.update_monitoring: the status dictionary of the live bot
LiveStatusUpdate(t, running, pnl, losses, npos, ntrades, last, found, high, price) ==
    [timestamp |-> t,
     is_alive  |-> running,
     mode      |-> "PRACTICE",
     account   |-> [daily_pnl |-> pnl, open_positions |-> npos,
                    consecutive_losses |-> losses, total_trades |-> ntrades],
     trading   |-> [can_trade |-> CanTrade(pnl, losses, TimeOfDay(t)),
                    last_signal |-> last, current_stage |-> "BASIC"],
     risk      |-> [daily_loss_remaining |-> DAILY_LOSS_LIMIT + pnl,
                    position_size |-> DEFAULT_POSITION,
                    max_risk_per_trade |-> MAX_RISK_PER_TRADE],
     patterns  |-> [found |-> found, high_quality |-> high],
     performance |-> [total_trades |-> ntrades],
     current_price |-> price,
     next_update |-> t + MAIN_LOOP_DELAY_SECONDS]

\* an iteration that reaches `continue` before update_monitoring writes nothing
NoStatus == [timestamp |-> NoTime]

\* the candidates at or above MIN_PATTERN_SCORE
HighQuality(cands) == { k \in DOMAIN cands : cands[k].score >= MIN_PATTERN_SCORE }

\* one pass through the body of `while self.is_running`, from can_trade to the
\* status written by update_monitoring: what happened to the signal, and the
\* status dictionary the iteration wrote
LoopIteration(v, t, pnl, losses, P, cands, accepted) ==
    LET best == BestSignal(cands)
        ex   == ExecuteSignal(best, P, losses, v, P)
        done == IF best = NoSignal THEN t ELSE CooldownEnd(t)
        last == IF best = NoSignal THEN NoTime
                ELSE IF v = "live" \/ (ex.result = "call" /\ accepted) THEN t
                ELSE NoTime
        status == IF v = "live"
                  THEN LiveStatusUpdate(done, TRUE, pnl, losses, 0, 0, last,
                                        Len(cands), Cardinality(HighQuality(cands)), 0)
                  ELSE StatusUpdate(done, TRUE, pnl, losses, 0, 0, last)
    IN  IF ~CanTrade(pnl, losses, TimeOfDay(t))
        THEN [outcome |-> "cannot_trade", report |-> NoStatus]
        ELSE IF P = 0 THEN [outcome |-> "no_data", report |-> NoStatus]
        ELSE IF best = NoSignal THEN [outcome |-> "no_signal", report |-> status]
        ELSE IF ex.result # "call" THEN [outcome |-> ex.result, report |-> status]
        ELSE [outcome |-> IF accepted THEN "placed" ELSE "not_placed",
              report |-> status]

ReportPrices == {0, 410, 8200, 40004}
ReportTimes == {7000, 43200}
ReportPnls == {-80000, 0}

ReportInputs ==
    UNION { [variant : {"mock", "live"}, t : ReportTimes, daily_pnl : ReportPnls,
             consecutive_losses : {0, 1}, P : {P},
             cands : {<<>>} \cup { <<a>> : a \in PatternsAt(P) },
             accepted : BOOLEAN] : P \in ReportPrices }

InitReport ==
    /\ InitBotIdle
    /\ InitOMIdle
    /\ vin \in ReportInputs
    /\ vout = [outcome |-> "none", report |-> NoStatus]

\* one iteration of the loop on the drawn state and market data
Iterate ==
    /\ vout.outcome = "none"
    /\ vout' = LoopIteration(vin.variant, vin.t, vin.daily_pnl,
                             vin.consecutive_losses, vin.P, vin.cands, vin.accepted)
    /\ UNCHANGED <<vin, botvars, omvars>>

NextReport == Iterate

SpecReport == InitReport /\ [][NextReport]_vars

\* the rejection reason a status dictionary carries, None when it has no such field
RejectionReason(report) ==
    IF "rejection_reason" \in DOMAIN report THEN report.rejection_reason ELSE "None"

\* C21: every cycle in which the chosen signal is rejected (invalid current
\* price, level on the wrong side of the price, order validation) produces a
\* report whose rejection_reason is populated.
C21_RejectionReported ==
    vout.outcome \in {"bad_price", "level", "invalid"} =>
        /\ vout.report # NoStatus
        /\ RejectionReason(vout.report) # "None"

(***************************************************************************)
(* One loop iteration with its collaborator calls                          *)
(*                                                                         *)
(* The base loop awaits get_candles once, for PRIMARY_TIMEFRAME; the live  *)
(* loop awaits get_multi_timeframe_candles, which calls get_candles once   *)
(* for each of ANALYSIS_TIMEFRAMES and keeps the non-empty results.        *)
(* get_candles returns an empty frame when the request fails, returns      *)
(* nothing, or fails validation.  `fetched` is the set of timeframes whose *)
(* get_candles call returned candles.                                      *)
(***************************************************************************)
\* the timeframes the iteration asks get_candles for, in order
Requested(v) == IF v = "live" THEN ANALYSIS_TIMEFRAMES ELSE <<PRIMARY_TIMEFRAME>>

HasDataAny(got) == got # {}

\* `candles.empty` / `not mtf_data or PRIMARY_TIMEFRAME not in mtf_data`
HasData(got) == got # {} /\ PRIMARY_TIMEFRAME \in got

\* the calls one iteration makes, and the await it ends in
CycleTrace(v, t, fetched, cands, P, accepted) ==
    LET asked == { Requested(v)[k] : k \in DOMAIN Requested(v) }
        got   == asked \cap fetched
        best  == BestSignal(cands)
        ex    == ExecuteSignal(best, P, 0, v, P)
        calls == [get_candles |-> Requested(v), empty |-> asked \ fetched,
                  scanned |-> {}, place_order |-> 0, accepted |-> FALSE,
                  is_running |-> TRUE, pc |-> "sleep", wake |-> t + NO_DATA_SLEEP]
    IN  IF ~HasData(got) THEN calls
        ELSE IF best = NoSignal
        THEN [calls EXCEPT !.scanned = got, !.wake = t + MAIN_LOOP_DELAY_SECONDS]
        ELSE [calls EXCEPT !.scanned = got,
                           !.place_order = IF ex.result = "call" THEN 1 ELSE 0,
                           !.accepted = ex.result = "call" /\ accepted,
                           !.pc = "sleep_cd", !.wake = CooldownEnd(t)]

CycleStart == 43200
CyclePrice == 8200

CycleInputs ==
    [variant : {"mock", "live"}, fetched : SUBSET {"1m", "5m"},
     cands : {<<>>} \cup { <<a>> : a \in PatternsAt(CyclePrice) },
     accepted : BOOLEAN]

NoTrace ==
    [get_candles |-> <<>>, empty |-> {}, scanned |-> {}, place_order |-> 0,
     accepted |-> FALSE, is_running |-> TRUE, pc |-> "fetch", wake |-> CycleStart]

InitCycle ==
    /\ InitBotIdle
    /\ InitOMIdle
    /\ vin \in CycleInputs
    /\ vout = NoTrace

\* the awaited fetch returns and the iteration runs to its sleep
RunCycle ==
    /\ vout = NoTrace
    /\ vout' = CycleTrace(vin.variant, CycleStart, vin.fetched, vin.cands,
                          CyclePrice, vin.accepted)
    /\ UNCHANGED <<vin, botvars, omvars>>

\* the cooldown sleep ends: update_monitoring, then sleep(main_loop_delay)
CycleCooldownWake ==
    /\ vout.pc = "sleep_cd"
    /\ vout' = [vout EXCEPT !.pc = "sleep",
                            !.wake = vout.wake + MAIN_LOOP_DELAY_SECONDS]
    /\ UNCHANGED <<vin, botvars, omvars>>

\* the sleep ends and `while self.is_running` is evaluated again; stop() may
\* have cleared is_running during the sleep
CycleWake ==
    /\ vout.pc = "sleep"
    /\ \E running \in BOOLEAN :
         vout' = [vout EXCEPT !.is_running = running,
                              !.pc = TopOfLoop(running, 0, 0, vout.wake).pc]
    /\ UNCHANGED <<vin, botvars, omvars>>

NextCycle == RunCycle \/ CycleCooldownWake \/ CycleWake

SpecCycle == InitCycle /\ [][NextCycle]_vars

\* a fetch failed, or the dispatched order was not accepted
C22_Failure ==
    \/ vout.empty # {}
    \/ vout.place_order = 1 /\ ~vout.accepted

\* what C22 requires of a failed cycle: nothing is scanned after a failed
\* fetch, each call is made at most once, the loop sleeps and, while is_running
\* holds, goes back to the top of the loop
C22_Aborted ==
    /\ vout.empty # {} => vout.scanned = {} /\ vout.place_order = 0
    /\ Len(vout.get_candles) = Cardinality({ vout.get_candles[k] :
                                             k \in DOMAIN vout.get_candles })
    /\ vout.place_order <= 1
    /\ vout.pc \in {"sleep_cd", "sleep", "fetch", "done"}
    /\ vout.pc = "done" => ~vout.is_running

\* C22 as stated: if fetching candles fails or yields nothing, or a dispatched
\* order is not accepted, the cycle aborts without further detection or
\* dispatch and without a retry; the loop sleeps, runs its next iteration and
\* does not terminate while is_running is True.
C22_AbortOnFailure == (vout # NoTrace /\ C22_Failure) => C22_Aborted

\* C22 (amended): if fetching the candles of the primary timeframe fails or
\* yields nothing, or a dispatched order is not accepted, the cycle aborts
\* without further detection or dispatch and without a retry; the loop sleeps,
\* runs its next iteration and does not terminate while is_running is True.
C22_AbortOnPrimaryFailure ==
    vout # NoTrace =>
        /\ PRIMARY_TIMEFRAME \in vout.empty =>
               vout.scanned = {} /\ vout.place_order = 0
        /\ Len(vout.get_candles) = Cardinality({ vout.get_candles[k] :
                                                 k \in DOMAIN vout.get_candles })
        /\ vout.place_order <= 1
        /\ vout.pc \in {"sleep_cd", "sleep", "fetch", "done"}
        /\ vout.pc = "done" => ~vout.is_running

\* a cycle whose primary fetch failed has slept and is back at the fetch
C22_Witness ==
    /\ vout.pc = "fetch"
    /\ vout.wake = CycleStart + NO_DATA_SLEEP
    /\ PRIMARY_TIMEFRAME \in vout.empty
    /\ vout.is_running

(***************************************************************************)
(* The day boundary                                                        *)
(*                                                                         *)
(* The state of a running mock bot over several calendar days: the date,   *)
(* the loop position, daily_pnl, consecutive_losses, trade_history (date,  *)
(* pnl and result of each trade), DayBoundaryHandler._last_check_date, the *)
(* date stored in logs/trades_today.json (NoDate when the file is absent), *)
(* and the dates on which reset_daily_counters ran.  The session ends at   *)
(* 23:00 and an iteration lasts a few minutes, so midnight falls between   *)
(* iterations, while the loop sleeps at its top.                           *)
(***************************************************************************)
MaxDays == 2
MaxDayTrades == 2
NoDate == -1
DayEntry == 8200

\* check_and_rotate_daily_files: whether the files were rotated, and the new
\* _last_check_date and trades file date
CheckAndRotate(last, file, date) ==
    IF last = date THEN [rotated |-> FALSE, last |-> last, file |-> file]
    ELSE IF file # NoDate /\ file # date
         THEN [rotated |-> TRUE, last |-> date, file |-> date]
    ELSE [rotated |-> FALSE, last |-> date, file |-> file]

\* reset_daily_counters: daily_pnl = 0.0, consecutive_losses is kept
ResetDailyCounters(s) == [s EXCEPT !.daily_pnl = 0, !.resets = Append(@, s.date)]

TodayTrades(trades, date) == SelectSeq(trades, LAMBDA tr : tr.date = date)

\* safe_update_monitoring: day boundary check, status, today's trades file
SafeUpdateMonitoring(s) ==
    LET chk == CheckAndRotate(s.last_check_date, s.trades_file, s.date)
        s1  == [s EXCEPT !.last_check_date = chk.last, !.trades_file = chk.file]
        s2  == IF chk.rotated THEN ResetDailyCounters(s1) ELSE s1
    IN  IF TodayTrades(s.trade_history, s.date) # <<>>
        THEN [s2 EXCEPT !.trades_file = s.date]
        ELSE s2

\* a trades file left by an earlier run (dated the day before the start), or none
InitDay ==
    /\ InitBotIdle
    /\ InitOMIdle
    /\ vin \in [trades_file : {NoDate, -2}]
    /\ vout = [date |-> 0, pc |-> "top", daily_pnl |-> 0, consecutive_losses |-> 0,
               trade_history |-> <<>>, last_check_date |-> NoDate,
               trades_file |-> vin.trades_file, resets |-> <<>>]

\* `if not self.can_trade(): sleep(60); continue`, otherwise on to the fetch
DayTop ==
    /\ vout.pc = "top"
    /\ CanTrade(vout.daily_pnl, vout.consecutive_losses, SESSION_START)
    /\ vout' = [vout EXCEPT !.pc = "exec"]
    /\ UNCHANGED <<vin, botvars, omvars>>

\* fetch, detect, and for a signal execute_signal with the simulated outcome
DayExecute ==
    /\ vout.pc = "exec"
    /\ \/ vout' = [vout EXCEPT !.pc = "monitor"]
       \/ /\ Len(vout.trade_history) < MaxDayTrades
          /\ \E win \in BOOLEAN :
               LET pnl == MockPnl("BUY", DayEntry, StopFor("bullish", DayEntry),
                                  TargetFor("bullish", DayEntry), win)
               IN  vout' = [vout EXCEPT
                       !.pc = "monitor",
                       !.daily_pnl = @ + pnl,
                       !.consecutive_losses = LossesAfter(@, win),
                       !.trade_history = Append(@, [date |-> vout.date, pnl |-> pnl,
                                                    result |-> IF win THEN "WIN"
                                                                      ELSE "LOSS"])]
    /\ UNCHANGED <<vin, botvars, omvars>>

\* update_monitoring at the end of the iteration
DayUpdateMonitoring ==
    /\ vout.pc = "monitor"
    /\ vout' = [SafeUpdateMonitoring(vout) EXCEPT !.pc = "top"]
    /\ UNCHANGED <<vin, botvars, omvars>>

\* the calendar date changes while the loop sleeps at its top; a loop that
\* may trade has run iterations during the session of the day that ends
Midnight ==
    /\ vout.pc = "top"
    /\ vout.date < MaxDays
    /\ CanTrade(vout.daily_pnl, vout.consecutive_losses, SESSION_START) =>
           vout.last_check_date = vout.date
    /\ vout' = [vout EXCEPT !.date = @ + 1]
    /\ UNCHANGED <<vin, botvars, omvars>>

NextDay == DayTop \/ DayExecute \/ DayUpdateMonitoring \/ Midnight

SpecDay == InitDay /\ [][NextDay]_vars

\* the P&L of the trades made on a date
RECURSIVE DayPnl(_, _)
DayPnl(trades, date) ==
    IF trades = <<>> THEN 0
    ELSE (IF Head(trades).date = date THEN Head(trades).pnl ELSE 0)
         + DayPnl(Tail(trades), date)

\* how many times reset_daily_counters ran on a date
ResetsOn(resets, date) == Len(SelectSeq(resets, LAMBDA d : d = date))

\* C23: daily_pnl is reset to zero once per calendar day at the day boundary
\* (so at the end of a day it holds the P&L of that day's trades only), not a
\* second time for the same date, and the reset leaves consecutive_losses
\* unchanged.
C23_DailyReset ==
    [][ /\ (vout'.date # vout.date /\ vout.date >= 1) =>
               vout.daily_pnl = DayPnl(vout.trade_history, vout.date)
        /\ ResetsOn(vout'.resets, vout'.date) <= 1
        /\ vout'.resets # vout.resets =>
               /\ vout'.daily_pnl = 0
               /\ vout'.consecutive_losses = vout.consecutive_losses ]_vars

(***************************************************************************)
(* LiveGoldBot: accounting of closed positions and the emergency flatten   *)
(***************************************************************************)

MaxTracked == 2
MaxUpdates == 3

NoUpdate == [position_id |-> 0, quantity |-> 1, unrealized_pnl |-> 0,
             realized_pnl |-> 0]

\* what get_positions returns: open positions at the broker, per symbol
HeldPositions ==
    { <<>>,
      <<[symbol |-> "MNQ", side |-> "BUY", quantity |-> 2]>>,
      <<[symbol |-> "MNQ", side |-> "SELL", quantity |-> -1]>>,
      <<[symbol |-> "MES", side |-> "BUY", quantity |-> 1],
        [symbol |-> "MNQ", side |-> "BUY", quantity |-> 1]>> }

\* TopStepXClient.place_order: order_side_map.get(side, 0), "Buy" 0, "Sell" 1
OrderSide(side) == IF side = "Buy" THEN 0 ELSE IF side = "Sell" THEN 1 ELSE 0

\* TopStepXClient.place_order: the order posted to /api/Order/place
TopstepOrder(order_data) ==
    [side |-> OrderSide(order_data.side), size |-> order_data.quantity]

RECURSIVE FlattenAllPositions(_)
\* flatten_all_positions: one closing market order per position in SYMBOL
FlattenAllPositions(held) ==
    IF held = <<>> THEN <<>>
    ELSE LET position == Head(held)
             close_side == IF position.side = "BUY" THEN "SELL" ELSE "BUY"
             close_order == [side |-> close_side,
                             quantity |-> Abs(position.quantity)]
         IN  (IF position.symbol = "MNQ"
              THEN <<[closes |-> position, order |-> TopstepOrder(close_order)]>>
              ELSE <<>>)
             \o FlattenAllPositions(Tail(held))

\* _handle_position_update on the bot's fields s
PositionUpdate(s, u, held) ==
    LET tracked == u.quantity = 0 /\ u.position_id \in DOMAIN s.positions
        win     == u.realized_pnl > 0
        pnl     == u.unrealized_pnl + u.realized_pnl
    IN  [s EXCEPT
           !.winning_trades = IF tracked /\ win THEN @ + 1 ELSE @,
           !.losing_trades = IF tracked /\ ~win THEN @ + 1 ELSE @,
           !.consecutive_losses = IF tracked THEN LossesAfter(@, win) ELSE @,
           !.positions = IF tracked THEN [@ EXCEPT ![u.position_id] = "closed"]
                         ELSE @,
           !.daily_pnl = pnl,
           !.flattened = pnl <= -DAILY_LOSS_LIMIT,
           !.sent = IF pnl <= -DAILY_LOSS_LIMIT THEN FlattenAllPositions(held)
                    ELSE <<>>,
           !.last = u,
           !.nupdates = @ + 1]

InitClose ==
    /\ InitBotIdle
    /\ InitOMIdle
    /\ vin = "live"
    /\ vout = [positions |-> <<>>, total_trades |-> 0, winning_trades |-> 0,
               losing_trades |-> 0, consecutive_losses |-> 0, daily_pnl |-> 0,
               date |-> 0, resets |-> <<>>, flattened |-> FALSE, sent |-> <<>>,
               last |-> NoUpdate, nupdates |-> 0]

\* a signal passes can_trade and place_order succeeds: the position is recorded
ClosePlace ==
    /\ CanTrade(vout.daily_pnl, vout.consecutive_losses, SESSION_START)
    /\ Len(vout.positions) < MaxTracked
    /\ vout' = [vout EXCEPT !.positions = Append(@, "pending"),
                            !.total_trades = @ + 1]
    /\ UNCHANGED <<vin, botvars, omvars>>

\* a position event arrives from the user hub
ClosePositionUpdate ==
    /\ vout.nupdates < MaxUpdates
    /\ \E position_id \in {0} \cup DOMAIN vout.positions, quantity \in {0, 1},
          unrealized_pnl \in UnrealizedPnls, realized_pnl \in RealizedPnls,
          held \in HeldPositions :
         vout' = PositionUpdate(vout,
                                [position_id |-> position_id, quantity |-> quantity,
                                 unrealized_pnl |-> unrealized_pnl,
                                 realized_pnl |-> realized_pnl],
                                held)
    /\ UNCHANGED <<vin, botvars, omvars>>

\* the calendar date changes and the day-boundary handler resets the counters
CloseDayBoundary ==
    /\ vout.date < MaxDays
    /\ vout' = ResetDailyCounters([vout EXCEPT !.date = @ + 1])
    /\ UNCHANGED <<vin, botvars, omvars>>

NextClose == ClosePlace \/ ClosePositionUpdate \/ CloseDayBoundary

SpecClose == InitClose /\ [][NextClose]_vars

NoOpenPosition(s) == \A i \in DOMAIN s.positions : s.positions[i] = "closed"

\* C31: once consecutive_losses >= MAX_CONSECUTIVE_LOSSES while no position is
\* open, can_trade() is False in every later state: no step (the day-boundary
\* reset included) lowers consecutive_losses without a winning close.
C31_LossLatch ==
    [][ (vout.consecutive_losses >= MAX_CONSECUTIVE_LOSSES /\ NoOpenPosition(vout))
          => ~CanTrade(vout'.daily_pnl, vout'.consecutive_losses, SESSION_START)
      ]_vars

\* C32: processing the same position-closed update (quantity 0, tracked position)
\* a second time leaves winning_trades, losing_trades and consecutive_losses as
\* they were after processing it once.
C32_CloseCountedOnce ==
    [][ ( /\ vout'.nupdates = vout.nupdates + 1
          /\ vout.nupdates >= 1
          /\ vout'.last = vout.last
          /\ vout.last.quantity = 0
          /\ vout.last.position_id \in DOMAIN vout.positions
          /\ vout.positions[vout.last.position_id] = "closed" )
          => /\ vout'.winning_trades = vout.winning_trades
             /\ vout'.losing_trades = vout.losing_trades
             /\ vout'.consecutive_losses = vout.consecutive_losses ]_vars

\* C34: when a position update leaves daily_pnl <= -DAILY_LOSS_LIMIT the flatten
\* runs, and for every open position in the traded symbol the order reaching the
\* broker is on the opposite side (Sell, 1, for BUY; Buy, 0, for SELL) for the
\* position's absolute quantity.
C34_FlattenOpposite ==
    /\ (vout.nupdates >= 1 /\ vout.daily_pnl <= -DAILY_LOSS_LIMIT) => vout.flattened
    /\ \A i \in DOMAIN vout.sent :
         LET c == vout.sent[i]
         IN  /\ c.closes.symbol = "MNQ"
             /\ c.order.side = (IF c.closes.side = "BUY" THEN 1 ELSE 0)
             /\ c.order.size = Abs(c.closes.quantity)

(***************************************************************************)
(* LiveGoldBot.place_order                                                 *)
(***************************************************************************)

PlaceInputs ==
    [current_price : {0, 8200}, mid : {0, 8200, 8204}, side : {"BUY", "SELL"},
     quantity : {1, 16, 17, 20}, stop_price : {8100, 8140, 8260},
     contract_id : {0, 1}, accepted : BOOLEAN]

\* place_order without the `total_risk > MAX_RISK_PER_TRADE` rejection
LivePlaceOrderNoRiskCheck(a) ==
    LET ref == IF a.current_price > 0 THEN a.current_price ELSE a.mid
        order_data == [side |-> IF a.side = "BUY" THEN "Buy" ELSE "Sell",
                       quantity |-> a.quantity, stop_loss |-> a.stop_price]
        nothing == [called |-> TRUE, result |-> FALSE, ref |-> ref, sent |-> <<>>,
                    positions |-> <<>>, total_trades |-> 0]
    IN  IF ref = 0 THEN nothing
        ELSE IF a.contract_id = 0 THEN nothing
        ELSE IF a.accepted
             THEN [called |-> TRUE, result |-> TRUE, ref |-> ref,
                   sent |-> <<TopstepOrder(order_data)>>,
                   positions |-> <<"pending">>, total_trades |-> 1]
             ELSE [nothing EXCEPT !.sent = <<TopstepOrder(order_data)>>]

\* place_order on a fresh bot: entry price, contract id, risk check, broker call
LivePlaceOrder(a) ==
    LET ref == IF a.current_price > 0 THEN a.current_price ELSE a.mid
        order_data == [side |-> IF a.side = "BUY" THEN "Buy" ELSE "Sell",
                       quantity |-> a.quantity, stop_loss |-> a.stop_price]
        nothing == [called |-> TRUE, result |-> FALSE, ref |-> ref, sent |-> <<>>,
                    positions |-> <<>>, total_trades |-> 0]
    IN  IF ref = 0 THEN nothing
        ELSE IF a.contract_id = 0 THEN nothing
        ELSE IF TotalRisk(ref, a.stop_price, a.quantity) > MAX_RISK_PER_TRADE
             THEN nothing
        ELSE IF a.accepted
             THEN [called |-> TRUE, result |-> TRUE, ref |-> ref,
                   sent |-> <<TopstepOrder(order_data)>>,
                   positions |-> <<"pending">>, total_trades |-> 1]
             ELSE [nothing EXCEPT !.sent = <<TopstepOrder(order_data)>>]

InitPlace ==
    /\ InitBotIdle
    /\ InitOMIdle
    /\ vin \in PlaceInputs
    /\ vout = [called |-> FALSE]

PlaceOrderCall ==
    /\ ~vout.called
    /\ vout' = LivePlaceOrder(vin)
    /\ UNCHANGED <<vin, botvars, omvars>>

NextPlace == PlaceOrderCall

SpecPlace == InitPlace /\ [][NextPlace]_vars

\* C33: place_order forwards an order to the broker only if its total risk (stop
\* distance in ticks x TICK_VALUE x quantity, from the price used as entry) is at
\* most MAX_RISK_PER_TRADE; otherwise it returns False, sends nothing, records no
\* position and does not increment total_trades.
C33_RiskCap ==
    vout.called =>
        LET ticks == IF vout.ref >= vin.stop_price THEN vout.ref - vin.stop_price
                     ELSE vin.stop_price - vout.ref
            risk  == ticks * TICK_VALUE * vin.quantity
        IN  /\ vout.sent # <<>> => risk <= MAX_RISK_PER_TRADE
            /\ risk > MAX_RISK_PER_TRADE =>
                 /\ vout.result = FALSE
                 /\ vout.sent = <<>>
                 /\ vout.positions = <<>>
                 /\ vout.total_trades = 0

C33_Witness ==
    /\ vout.called
    /\ vin.accepted
    /\ vin.contract_id # 0
    /\ vin.current_price = 0
    /\ vout.ref = 8204
    /\ vin.quantity = 17
    /\ vin.stop_price = 8140
    /\ vout.result = FALSE
    /\ vout.sent = <<>>

(***************************************************************************)
(* PartialProfitManager (target prices in tenths of a tick)                *)
(***************************************************************************)

MaxQuantity == 10
MaxPartialFills == 3

\* default_percentages (in tenths) and default_target_ratios (in tenths)
DefaultPercentage(level) == CASE level = 1 -> 5 [] level = 2 -> 4 [] OTHER -> 1
DefaultTargetRatio(level) == CASE level = 1 -> 10 [] level = 2 -> 20 [] OTHER -> 25

\* the order id of a target whose limit order was not accepted (None)
NoOrderId == 0

PartialTarget(side, entry_price, stop_distance, level, quantity) ==
    [target_level |-> level,
     price |-> IF side = "BUY"
               THEN entry_price * 10 + stop_distance * DefaultTargetRatio(level)
               ELSE entry_price * 10 - stop_distance * DefaultTargetRatio(level),
     quantity |-> quantity, order_id |-> NoOrderId, is_filled |-> FALSE]

\* calculate_partial_targets with the last level at its own percentage
CalculatePartialTargetsNoRemainder(side, entry_price, stop_price, total_quantity) ==
    LET stop_distance == Abs(entry_price - stop_price)
        q(level) == (total_quantity * DefaultPercentage(level)) \div 10
    IN  SelectSeq(<<PartialTarget(side, entry_price, stop_distance, 1, q(1)),
                    PartialTarget(side, entry_price, stop_distance, 2, q(2)),
                    PartialTarget(side, entry_price, stop_distance, 3, q(3))>>,
                  LAMBDA t : t.quantity > 0)

\* calculate_partial_targets: int(total * percentage) for levels 1 and 2, the
\* rest for level 3; a level with quantity 0 gets no target
CalculatePartialTargets(side, entry_price, stop_price, total_quantity) ==
    LET stop_distance == Abs(entry_price - stop_price)
        q1 == (total_quantity * DefaultPercentage(1)) \div 10
        q2 == (total_quantity * DefaultPercentage(2)) \div 10
        q3 == total_quantity - q1 - q2
    IN  SelectSeq(<<PartialTarget(side, entry_price, stop_distance, 1, q1),
                    PartialTarget(side, entry_price, stop_distance, 2, q2),
                    PartialTarget(side, entry_price, stop_distance, 3, q3)>>,
                  LAMBDA t : t.quantity > 0)

\* create_managed_position: the targets, their limit orders (accepted or not)
CreateManagedPosition(a) ==
    LET targets == CalculatePartialTargets(a.side, a.entry_price, a.stop_price,
                                           a.quantity)
    IN  [created |-> TRUE, side |-> a.side, total_quantity |-> a.quantity,
         entry_price |-> a.entry_price, stop_price |-> a.stop_price,
         original_stop_price |-> a.stop_price,
         targets |-> [i \in DOMAIN targets |->
                        [targets[i] EXCEPT !.order_id =
                            IF targets[i].target_level \in a.refused
                            THEN NoOrderId ELSE targets[i].target_level]],
         remaining_quantity |-> a.quantity, realized_pnl |-> 0,
         is_stop_adjusted |-> FALSE, adjustments |-> 0, fills |-> 0]

\* adjust_stop_to_breakeven without the `should_adjust` test
AdjustStopAlways(position) ==
    LET new_stop_price == IF position.side = "BUY" THEN position.entry_price + 2
                          ELSE position.entry_price - 2
    IN  [position EXCEPT !.stop_price = new_stop_price,
                         !.is_stop_adjusted = TRUE,
                         !.adjustments = @ + 1]

\* adjust_stop_to_breakeven: entry +/- 2 ticks, only if better than the stop
AdjustStopToBreakeven(position) ==
    LET new_stop_price == IF position.side = "BUY" THEN position.entry_price + 2
                          ELSE position.entry_price - 2
        should_adjust == IF position.side = "BUY"
                         THEN new_stop_price > position.stop_price
                         ELSE new_stop_price < position.stop_price
    IN  IF should_adjust
        THEN [position EXCEPT !.stop_price = new_stop_price,
                              !.is_stop_adjusted = TRUE,
                              !.adjustments = @ + 1]
        ELSE position

\* handle_partial_fill for a managed position
HandlePartialFill(position, filled_order_id, fill_price, fill_quantity) ==
    LET found == { i \in DOMAIN position.targets :
                     position.targets[i].order_id = filled_order_id }
    IN  IF found = {} THEN [position EXCEPT !.fills = @ + 1]
        ELSE LET i == CHOOSE j \in found : \A k \in found : j <= k
                 pnl_per_contract ==
                     IF position.side = "BUY"
                     THEN (fill_price - position.entry_price * 10) * TICK_VALUE
                     ELSE (position.entry_price * 10 - fill_price) * TICK_VALUE
                 p == [position EXCEPT
                         !.targets[i].is_filled = TRUE,
                         !.remaining_quantity = @ - fill_quantity,
                         !.realized_pnl = @ + (pnl_per_contract * fill_quantity) \div 10,
                         !.fills = @ + 1]
             IN  IF p.targets[i].target_level = 1 /\ ~p.is_stop_adjusted
                 THEN AdjustStopToBreakeven(p)
                 ELSE p

\* positions: entry 2050.00; the stop on the loss side, or trailed past breakeven
PartialInputs ==
    { a \in [side : {"BUY", "SELL"}, quantity : 1..MaxQuantity,
             entry_price : {8200}, stop_price : {8180, 8195, 8205, 8220},
             refused : {{}, {2}}] : TRUE }

InitPartial ==
    /\ InitBotIdle
    /\ InitOMIdle
    /\ vin \in PartialInputs
    /\ vout = [created |-> FALSE]

PartialCreate ==
    /\ ~vout.created
    /\ vout' = CreateManagedPosition(vin)
    /\ UNCHANGED <<vin, botvars, omvars>>

\* a fill report for a target's order: the whole target, or one contract of it
PartialFill ==
    /\ vout.created
    /\ vout.fills < MaxPartialFills
    /\ \E i \in DOMAIN vout.targets, whole \in BOOLEAN :
         /\ vout.targets[i].order_id # NoOrderId
         /\ vout' = HandlePartialFill(vout, vout.targets[i].order_id,
                                      vout.targets[i].price,
                                      IF whole THEN vout.targets[i].quantity ELSE 1)
    /\ UNCHANGED <<vin, botvars, omvars>>

\* a fill report for an order that is not a target of the position
PartialFillUnknown ==
    /\ vout.created
    /\ vout.fills < MaxPartialFills
    /\ vout' = HandlePartialFill(vout, 9, vin.entry_price * 10, 1)
    /\ UNCHANGED <<vin, botvars, omvars>>

NextPartial == PartialCreate \/ PartialFill \/ PartialFillUnknown

SpecPartial == InitPartial /\ [][NextPartial]_vars

RECURSIVE FilledQuantity(_)
\* the sum of the quantities of the targets marked filled
FilledQuantity(targets) ==
    IF targets = <<>> THEN 0
    ELSE (IF Head(targets).is_filled THEN Head(targets).quantity ELSE 0)
         + FilledQuantity(Tail(targets))

RECURSIVE TargetQuantity(_)
TargetQuantity(targets) ==
    IF targets = <<>> THEN 0
    ELSE Head(targets).quantity + TargetQuantity(Tail(targets))

\* C35: after any sequence of handle_partial_fill calls (a repeated report for
\* the same target included) remaining_quantity = total_quantity - the sum of the
\* quantities of the targets marked filled, and 0 <= remaining_quantity <=
\* total_quantity.
C35_RemainingQuantity ==
    vout.created =>
        /\ vout.remaining_quantity =
               vout.total_quantity - FilledQuantity(vout.targets)
        /\ 0 <= vout.remaining_quantity
        /\ vout.remaining_quantity <= vout.total_quantity

\* C36: for the default 50/40/10 split and every total_quantity >= 1 the targets
\* have positive quantities that sum to total_quantity, and each is priced on the
\* profit side of entry at 1.0, 2.0, 2.5 times the stop distance for levels 1, 2, 3.
C36_TargetsSplit ==
    vout.created =>
        /\ TargetQuantity(vout.targets) = vin.quantity
        /\ \A i \in DOMAIN vout.targets :
             LET t == vout.targets[i]
                 d == IF vin.entry_price >= vin.stop_price
                      THEN vin.entry_price - vin.stop_price
                      ELSE vin.stop_price - vin.entry_price
                 r == IF t.target_level = 1 THEN 10
                      ELSE IF t.target_level = 2 THEN 20 ELSE 25
             IN  /\ t.quantity > 0
                 /\ t.target_level \in {1, 2, 3}
                 /\ vin.side = "BUY" => /\ t.price > vin.entry_price * 10
                                        /\ t.price - vin.entry_price * 10 = d * r
                 /\ vin.side = "SELL" => /\ t.price < vin.entry_price * 10
                                         /\ vin.entry_price * 10 - t.price = d * r

C36_Witness ==
    /\ vout.created
    /\ vin.quantity = 7
    /\ vin.side = "SELL"
    /\ Len(vout.targets) = 3
    /\ vout.targets[1].quantity = 3
    /\ vout.targets[2].quantity = 2
    /\ vout.targets[3].quantity = 2
    /\ vout.targets[3].price = 81500

\* C37: after the level-1 target fills the stop is moved to breakeven (entry + 2
\* ticks for BUY, entry - 2 for SELL) at most once, and only when that is better
\* than the current stop: a BUY's stop never decreases, a SELL's never increases.
C37_BreakevenOnce ==
    [][ vout.created =>
          /\ vout'.adjustments <= 1
          /\ vout.side = "BUY" => vout'.stop_price >= vout.stop_price
          /\ vout.side = "SELL" => vout'.stop_price <= vout.stop_price
          /\ vout'.stop_price # vout.stop_price =>
               /\ vout'.stop_price = (IF vout.side = "BUY" THEN vout.entry_price + 2
                                      ELSE vout.entry_price - 2)
               /\ \E i \in DOMAIN vout'.targets :
                    /\ vout'.targets[i].target_level = 1
                    /\ vout'.targets[i].is_filled ]_vars

C37_Witness ==
    /\ vout.created
    /\ vout.side = "BUY"
    /\ vout.original_stop_price = 8180
    /\ vout.stop_price = 8202
    /\ vout.adjustments = 1
    /\ vout.fills = 3
    /\ vout.targets[1].is_filled

(***************************************************************************)
(* WebSocketReconnector: receive_loop, reconnect, connect, disconnect      *)
(***************************************************************************)

MaxReconnects == 12

\* the constructor's defaults, and Config.WEBSOCKET_MAX_RECONNECT_DELAY
WSArgs == [initial_reconnect_delay : {1, 2}, max_reconnect_delay : {300}]

\* reconnect's backoff without the cap
BackoffNoCap(reconnect_delay, max_reconnect_delay) == reconnect_delay * 2

\* reconnect: min(self.reconnect_delay * 2, self.max_reconnect_delay)
Backoff(reconnect_delay, max_reconnect_delay) ==
    Min(reconnect_delay * 2, max_reconnect_delay)

\* connect when websockets.connect returns a socket; on_connect sends the
\* subscription, and a failed send leaves is_connected False
ConnectOk(w, a, sent) ==
    [w EXCEPT !.ws_open = TRUE, !.opened = @ + 1, !.is_connected = sent,
              !.consecutive_failures = 0,
              !.reconnect_delay = a.initial_reconnect_delay]

\* connect when websockets.connect raises
ConnectFailed(w) ==
    [w EXCEPT !.is_connected = FALSE, !.consecutive_failures = @ + 1]

InitWS ==
    /\ InitBotIdle
    /\ InitOMIdle
    /\ vin \in WSArgs
    /\ vout = [is_connected |-> FALSE, should_run |-> TRUE, ws_open |-> FALSE,
               reconnect_delay |-> vin.initial_reconnect_delay,
               consecutive_failures |-> 0, total_reconnect_attempts |-> 0,
               opened |-> 0, rpc |-> "new", dpc |-> "idle", d_opened |-> 0]

\* ConnectionManager.connect_all, then start_all creates the receive_loop task
WSConnectAll ==
    /\ vout.rpc = "new"
    /\ vout.dpc = "idle"
    /\ \E ok \in BOOLEAN, sent \in BOOLEAN :
         vout' = [(IF ok THEN ConnectOk(vout, vin, sent) ELSE ConnectFailed(vout))
                    EXCEPT !.rpc = "top"]
    /\ UNCHANGED <<vin, botvars, omvars>>

\* `while self.should_run:`, then reconnect (up to its sleep) or recv
WSLoopTop ==
    /\ vout.rpc = "top"
    /\ vout' = [vout EXCEPT !.rpc = IF ~vout.should_run THEN "done"
                                    ELSE IF ~vout.is_connected THEN "sleep"
                                    ELSE "recv"]
    /\ ~vout.should_run \/ vout.is_connected
         \/ vout.total_reconnect_attempts < MaxReconnects
    /\ UNCHANGED <<vin, botvars, omvars>>

\* reconnect after asyncio.sleep(reconnect_delay): the attempt starts
WSReconnectWake ==
    /\ vout.rpc = "sleep"
    /\ vout' = [vout EXCEPT !.total_reconnect_attempts = @ + 1,
                            !.rpc = "connecting"]
    /\ UNCHANGED <<vin, botvars, omvars>>

\* reconnect after `await self.connect()`: success, or backoff and extra wait
WSConnectReturn ==
    /\ vout.rpc = "connecting"
    /\ \E ok \in BOOLEAN, sent \in BOOLEAN :
         IF ok
         THEN vout' = [ConnectOk(vout, vin, sent) EXCEPT !.rpc = "top"]
         ELSE LET w == ConnectFailed(vout)
              IN  vout' = [w EXCEPT
                             !.reconnect_delay =
                                 Backoff(@, vin.max_reconnect_delay),
                             !.rpc = IF w.consecutive_failures > 10
                                     THEN "extra" ELSE "top"]
    /\ UNCHANGED <<vin, botvars, omvars>>

\* the extra asyncio.sleep(60) after more than 10 consecutive failures
WSExtraWait ==
    /\ vout.rpc = "extra"
    /\ vout' = [vout EXCEPT !.rpc = "top"]
    /\ UNCHANGED <<vin, botvars, omvars>>

\* recv returns a message, or the connection is found lost (closed by the
\* server or by disconnect, heartbeat not sent, receive error)
WSRecv ==
    /\ vout.rpc = "recv"
    /\ \E lost \in BOOLEAN :
         /\ ~vout.ws_open => lost
         /\ vout' = [vout EXCEPT !.is_connected = IF lost THEN FALSE ELSE @,
                                 !.ws_open = IF lost THEN FALSE ELSE @,
                                 !.rpc = "top"]
    /\ UNCHANGED <<vin, botvars, omvars>>

\* disconnect up to `await self.ws.close()`
WSDisconnect ==
    /\ vout.rpc # "new"
    /\ vout.dpc = "idle"
    /\ vout' = [vout EXCEPT !.should_run = FALSE,
                            !.d_opened = vout.opened,
                            !.is_connected = IF vout.ws_open THEN @ ELSE FALSE,
                            !.dpc = IF vout.ws_open THEN "closing" ELSE "done"]
    /\ UNCHANGED <<vin, botvars, omvars>>

\* disconnect after the close of the socket it found: is_connected = False
WSDisconnectClosed ==
    /\ vout.dpc = "closing"
    /\ vout' = [vout EXCEPT !.ws_open = IF vout.opened = vout.d_opened
                                        THEN FALSE ELSE @,
                            !.is_connected = FALSE,
                            !.dpc = "done"]
    /\ UNCHANGED <<vin, botvars, omvars>>

NextWS ==
    \/ WSConnectAll
    \/ WSLoopTop
    \/ WSReconnectWake
    \/ WSConnectReturn
    \/ WSExtraWait
    \/ WSRecv
    \/ WSDisconnect
    \/ WSDisconnectClosed

SpecWS == InitWS /\ [][NextWS]_vars

\* C38: after disconnect() has been called (here: has returned), is_connected
\* never becomes True again and no new connection is opened, even if a reconnect
\* attempt of receive_loop was sleeping or in progress.
C38_DisconnectFinal ==
    vout.dpc = "done" =>
        /\ ~vout.is_connected
        /\ vout.opened = vout.d_opened

\* C39: reconnect_delay starts at initial_reconnect_delay, doubles after each
\* failed reconnect attempt, never exceeds max_reconnect_delay, and returns to
\* initial_reconnect_delay (consecutive_failures back at 0) after every
\* successful connect.
C39_Backoff ==
    /\ vout.reconnect_delay = vin.initial_reconnect_delay
    /\ [][ /\ vout'.reconnect_delay <= vin.max_reconnect_delay
           /\ ( /\ vout.rpc = "connecting"
                /\ vout'.rpc # "connecting"
                /\ vout'.opened = vout.opened ) =>
                 \/ vout'.reconnect_delay = 2 * vout.reconnect_delay
                 \/ /\ vout'.reconnect_delay = vin.max_reconnect_delay
                    /\ 2 * vout.reconnect_delay > vin.max_reconnect_delay
           /\ vout'.opened # vout.opened =>
                 /\ vout'.reconnect_delay = vin.initial_reconnect_delay
                 /\ vout'.consecutive_failures = 0
           /\ vout'.reconnect_delay # vout.reconnect_delay =>
                 vout.rpc \in {"new", "connecting"} ]_vars

C39_Witness ==
    /\ vin.initial_reconnect_delay = 1
    /\ vout.reconnect_delay = 300
    /\ vout.consecutive_failures = 9
    /\ vout.total_reconnect_attempts = 11
    /\ vout.opened = 1

====
